---- MODULE Spec2Model ----
(***************************************************************************)
(* The chess rules engine of chess3d (src/chess3d/src/chess/engine.js) as  *)
(* a state machine: one GameState value held by a caller, advanced only by *)
(* makeMove.                                                               *)
(*                                                                         *)
(* Encoding.  A piece 'wp' is the pair <<"w", "p">>; an empty square, and  *)
(* a null enPassantTarget, is the empty tuple.  A null promotion, castle,  *)
(* winner or gameOverReason is the string "null".  Rows and columns are    *)
(* 0..7 as in the source (row 0 = Black's home rank).                      *)
(***************************************************************************)
EXTENDS Integers, Sequences, FiniteSets, TLC

VARIABLES game, ret, onBook, aiResult, chaosState,
          difficulty, isAnimating, declared, gameNo, tasks, askedBy

\* the state of the page (part_002): the difficulty selected, the animation
\* flag, the game-over banner, and the callbacks waiting to run; gameNo counts
\* the games started and askedBy is the game whose callback called getAIMove
\* last (neither is a variable of the program)
page == <<difficulty, isAnimating, declared, gameNo, tasks, askedBy>>

vars == <<game, ret, onBook, aiResult, chaosState,
          difficulty, isAnimating, declared, gameNo, tasks, askedBy>>

\* ---------------------------------------------------------------- constants

PIECE == [PAWN |-> "p", KNIGHT |-> "n", BISHOP |-> "b",
          ROOK |-> "r", QUEEN |-> "q", KING |-> "k"]

COLOR == [WHITE |-> "w", BLACK |-> "b"]

None == <<>>

null == "null"

backRank(c) ==
  <<  <<c, "r">>, <<c, "n">>, <<c, "b">>, <<c, "q">>,
      <<c, "k">>, <<c, "b">>, <<c, "n">>, <<c, "r">>  >>

INITIAL_BOARD ==
  [r \in 0..7 |->
    [c \in 0..7 |->
      CASE r = 0 -> backRank("b")[c + 1]
        [] r = 1 -> <<"b", "p">>
        [] r = 6 -> <<"w", "p">>
        [] r = 7 -> backRank("w")[c + 1]
        [] OTHER -> None]]

createGame ==
  [board |-> INITIAL_BOARD,
   turn |-> COLOR.WHITE,
   castling |-> [w |-> [kingSide |-> TRUE, queenSide |-> TRUE],
                 b |-> [kingSide |-> TRUE, queenSide |-> TRUE]],
   enPassantTarget |-> None,
   halfMoveClock |-> 0,
   fullMoveNumber |-> 1,
   moveHistory |-> <<>>,
   gameOver |-> FALSE,
   winner |-> null,
   gameOverReason |-> null]

\* ------------------------------------------------------------------ helpers

getPieceColor(piece) == IF piece = None THEN null ELSE piece[1]

getPieceType(piece) == IF piece = None THEN null ELSE piece[2]

opponent(color) == IF color = COLOR.WHITE THEN COLOR.BLACK ELSE COLOR.WHITE

onBoard(r, c) == r >= 0 /\ r <= 7 /\ c >= 0 /\ c <= 7

\* game.board[r]?.[c]: undefined (falsy) when the row or column does not exist
at(board, r, c) == IF onBoard(r, c) THEN board[r][c] ELSE None

abs(x) == IF x < 0 THEN -x ELSE x

knightMoves ==
  << <<-2, -1>>, <<-2, 1>>, <<-1, -2>>, <<-1, 2>>,
     <<1, -2>>, <<1, 2>>, <<2, -1>>, <<2, 1>> >>

kingMoves ==
  << <<-1, -1>>, <<-1, 0>>, <<-1, 1>>, <<0, -1>>,
     <<0, 1>>, <<1, -1>>, <<1, 0>>, <<1, 1>> >>

bishopDirs == << <<-1, -1>>, <<-1, 1>>, <<1, -1>>, <<1, 1>> >>

rookDirs == << <<-1, 0>>, <<1, 0>>, <<0, -1>>, <<0, 1>> >>

queenDirs == bishopDirs \o rookDirs

slideDirs(type) ==
  CASE type = PIECE.BISHOP -> bishopDirs
    [] type = PIECE.ROOK -> rookDirs
    [] type = PIECE.QUEEN -> queenDirs
    [] OTHER -> <<>>

RECURSIVE flatten(_)
flatten(seqs) ==
  IF seqs = <<>> THEN <<>> ELSE Head(seqs) \o flatten(Tail(seqs))

\* ------------------------------------------------------------------ attacks

RECURSIVE rayAttacksThroughMen(_, _, _, _, _, _)
\* fault: the ray does not stop at the first occupied square
rayAttacksThroughMen(board, row, col, dr, dc, i) ==
  LET nr == row + dr * i
      nc == col + dc * i
  IN IF i >= 8 \/ ~onBoard(nr, nc) THEN {}
     ELSE {<<nr, nc>>} \cup rayAttacksThroughMen(board, row, col, dr, dc, i + 1)

\* One direction of a bishop, rook or queen: the loop `for i = 1..7` pushes
\* every square up to the board edge or the first occupied square, that
\* square included.  The list is only searched, so it is kept as a set.
RECURSIVE rayAttacks(_, _, _, _, _, _)
rayAttacks(board, row, col, dr, dc, i) ==
  LET nr == row + dr * i
      nc == col + dc * i
  IN IF i >= 8 \/ ~onBoard(nr, nc) THEN {}
     ELSE IF board[nr][nc] # None THEN {<<nr, nc>>}
     ELSE {<<nr, nc>>} \cup rayAttacks(board, row, col, dr, dc, i + 1)

getAttacksForPiece(g, row, col, piece) ==
  LET color == getPieceColor(piece)
      type == getPieceType(piece)
  IN CASE type = PIECE.PAWN ->
            LET direction == IF color = COLOR.WHITE THEN -1 ELSE 1
            IN (IF col > 0 THEN {<<row + direction, col - 1>>} ELSE {})
               \cup (IF col < 7 THEN {<<row + direction, col + 1>>} ELSE {})
       [] type = PIECE.KNIGHT ->
            {<<row + knightMoves[k][1], col + knightMoves[k][2]>> :
               k \in {j \in 1..8 :
                        onBoard(row + knightMoves[j][1], col + knightMoves[j][2])}}
       [] type \in {PIECE.BISHOP, PIECE.ROOK, PIECE.QUEEN} ->
            UNION {rayAttacks(g.board, row, col,
                              slideDirs(type)[k][1], slideDirs(type)[k][2], 1) :
                     k \in 1..Len(slideDirs(type))}
       [] type = PIECE.KING ->
            {<<row + kingMoves[k][1], col + kingMoves[k][2]>> :
               k \in {j \in 1..8 :
                        onBoard(row + kingMoves[j][1], col + kingMoves[j][2])}}
       [] OTHER -> {}

isSquareAttacked(g, row, col, byColor) ==
  \E r \in 0..7, c \in 0..7 :
    LET piece == g.board[r][c]
    IN /\ piece # None
       /\ getPieceColor(piece) = byColor
       /\ <<row, col>> \in getAttacksForPiece(g, r, c, piece)

\* the first square holding the king in row-major order, None when absent
findKing(g, color) ==
  LET at1 == {i \in 0..63 : g.board[i \div 8][i % 8] = <<color, PIECE.KING>>}
  IN IF at1 = {} THEN None
     ELSE LET i == CHOOSE j \in at1 : \A k \in at1 : j <= k
          IN <<i \div 8, i % 8>>

isInCheck(g, color) ==
  LET kingPos == findKing(g, color)
  IN IF kingPos = None THEN FALSE
     ELSE isSquareAttacked(g, kingPos[1], kingPos[2], opponent(color))

\* -------------------------------------------------------- move generation

\* a LegalMove; the flags a candidate does not carry are false / "null"
mkMove(toRow, toCol, capture, promotion, castle, doublePawn, enPassant) ==
  [toRow |-> toRow, toCol |-> toCol, capture |-> capture,
   promotion |-> promotion, castle |-> castle,
   doublePawn |-> doublePawn, enPassant |-> enPassant]

\* fault: addMove without the test for a man of the mover's own colour
addMoveOntoOwnMen(g, color, toRow, toCol, doublePawn, enPassant) ==
  IF ~onBoard(toRow, toCol) THEN <<>>
  ELSE LET target == g.board[toRow][toCol]
       IN << mkMove(toRow, toCol,
                    IF target # None THEN TRUE ELSE enPassant,
                    null, null, doublePawn, enPassant) >>

\* the closure addMove of getPseudoLegalMoves: the moves it pushes (none or one)
addMove(g, color, toRow, toCol, doublePawn, enPassant) ==
  IF ~onBoard(toRow, toCol) THEN <<>>
  ELSE LET target == g.board[toRow][toCol]
       IN IF target # None /\ getPieceColor(target) = color THEN <<>>
          ELSE << mkMove(toRow, toCol,
                         IF target # None THEN TRUE ELSE enPassant,
                         null, null, doublePawn, enPassant) >>

promotionPieces == <<PIECE.QUEEN, PIECE.ROOK, PIECE.BISHOP, PIECE.KNIGHT>>

promotionMoves(toRow, toCol, capture) ==
  [k \in 1..4 |->
     mkMove(toRow, toCol, capture, promotionPieces[k], null, FALSE, FALSE)]

pawnCaptures(g, row, col, color, dc) ==
  LET direction == IF color = COLOR.WHITE THEN -1 ELSE 1
      promotionRow == IF color = COLOR.WHITE THEN 0 ELSE 7
      nc == col + dc
      target == at(g.board, row + direction, nc)
  IN IF nc < 0 \/ nc > 7 THEN <<>>
     ELSE (IF target # None /\ getPieceColor(target) = opponent(color)
           THEN IF row + direction = promotionRow
                THEN promotionMoves(row + direction, nc, TRUE)
                ELSE addMove(g, color, row + direction, nc, FALSE, FALSE)
           ELSE <<>>)
          \o
          (IF /\ g.enPassantTarget # None
              /\ g.enPassantTarget[1] = row + direction
              /\ g.enPassantTarget[2] = nc
           THEN addMove(g, color, row + direction, nc, FALSE, TRUE)
           ELSE <<>>)

\* fault for C6: pawnMoves without the double step from the start row
pawnMovesSingleStepOnly(g, row, col, color) ==
  LET direction == IF color = COLOR.WHITE THEN -1 ELSE 1
      promotionRow == IF color = COLOR.WHITE THEN 0 ELSE 7
  IN (IF at(g.board, row + direction, col) = None
      THEN IF row + direction = promotionRow
           THEN promotionMoves(row + direction, col, FALSE)
           ELSE addMove(g, color, row + direction, col, FALSE, FALSE)
      ELSE <<>>)
     \o pawnCaptures(g, row, col, color, -1)
     \o pawnCaptures(g, row, col, color, 1)

pawnMoves(g, row, col, color) ==
  LET direction == IF color = COLOR.WHITE THEN -1 ELSE 1
      startRow == IF color = COLOR.WHITE THEN 6 ELSE 1
      promotionRow == IF color = COLOR.WHITE THEN 0 ELSE 7
  IN (IF at(g.board, row + direction, col) = None
      THEN IF row + direction = promotionRow
           THEN promotionMoves(row + direction, col, FALSE)
           ELSE addMove(g, color, row + direction, col, FALSE, FALSE)
                \o (IF row = startRow /\ at(g.board, row + 2 * direction, col) = None
                    THEN addMove(g, color, row + 2 * direction, col, TRUE, FALSE)
                    ELSE <<>>)
      ELSE <<>>)
     \o pawnCaptures(g, row, col, color, -1)
     \o pawnCaptures(g, row, col, color, 1)

\* one direction of a bishop, rook or queen: the loop `for i = 1..7`
RECURSIVE slideMoves(_, _, _, _, _, _, _)
slideMoves(g, color, row, col, dr, dc, i) ==
  LET nr == row + dr * i
      nc == col + dc * i
  IN IF i >= 8 \/ ~onBoard(nr, nc) THEN <<>>
     ELSE IF g.board[nr][nc] # None
          THEN IF getPieceColor(g.board[nr][nc]) = opponent(color)
               THEN addMove(g, color, nr, nc, FALSE, FALSE)
               ELSE <<>>
          ELSE addMove(g, color, nr, nc, FALSE, FALSE)
               \o slideMoves(g, color, row, col, dr, dc, i + 1)

\* fault for C8: castlingMoves that tests only the king's destination for
\* attack, not the square it crosses
castlingMovesCrossingUnchecked(g, row, col, color) ==
  LET homeRow == IF color = COLOR.WHITE THEN 7 ELSE 0
      enemyColor == opponent(color)
  IN IF row = homeRow /\ col = 4 /\ ~isInCheck(g, color)
     THEN (IF /\ g.castling[color].kingSide
              /\ g.board[homeRow][5] = None
              /\ g.board[homeRow][6] = None
              /\ g.board[homeRow][7] = <<color, PIECE.ROOK>>
              /\ ~isSquareAttacked(g, homeRow, 6, enemyColor)
           THEN << mkMove(homeRow, 6, FALSE, null, "K", FALSE, FALSE) >>
           ELSE <<>>)
          \o
          (IF /\ g.castling[color].queenSide
              /\ g.board[homeRow][1] = None
              /\ g.board[homeRow][2] = None
              /\ g.board[homeRow][3] = None
              /\ g.board[homeRow][0] = <<color, PIECE.ROOK>>
              /\ ~isSquareAttacked(g, homeRow, 2, enemyColor)
           THEN << mkMove(homeRow, 2, FALSE, null, "Q", FALSE, FALSE) >>
           ELSE <<>>)
     ELSE <<>>

castlingMoves(g, row, col, color) ==
  LET homeRow == IF color = COLOR.WHITE THEN 7 ELSE 0
      enemyColor == opponent(color)
  IN IF row = homeRow /\ col = 4 /\ ~isInCheck(g, color)
     THEN (IF /\ g.castling[color].kingSide
              /\ g.board[homeRow][5] = None
              /\ g.board[homeRow][6] = None
              /\ g.board[homeRow][7] = <<color, PIECE.ROOK>>
              /\ ~isSquareAttacked(g, homeRow, 5, enemyColor)
              /\ ~isSquareAttacked(g, homeRow, 6, enemyColor)
           THEN << mkMove(homeRow, 6, FALSE, null, "K", FALSE, FALSE) >>
           ELSE <<>>)
          \o
          (IF /\ g.castling[color].queenSide
              /\ g.board[homeRow][1] = None
              /\ g.board[homeRow][2] = None
              /\ g.board[homeRow][3] = None
              /\ g.board[homeRow][0] = <<color, PIECE.ROOK>>
              /\ ~isSquareAttacked(g, homeRow, 2, enemyColor)
              /\ ~isSquareAttacked(g, homeRow, 3, enemyColor)
           THEN << mkMove(homeRow, 2, FALSE, null, "Q", FALSE, FALSE) >>
           ELSE <<>>)
     ELSE <<>>

getPseudoLegalMoves(g, row, col, piece) ==
  LET color == getPieceColor(piece)
      type == getPieceType(piece)
  IN CASE type = PIECE.PAWN -> pawnMoves(g, row, col, color)
       [] type = PIECE.KNIGHT ->
            flatten([k \in 1..8 |->
              addMove(g, color, row + knightMoves[k][1], col + knightMoves[k][2],
                      FALSE, FALSE)])
       [] type \in {PIECE.BISHOP, PIECE.ROOK, PIECE.QUEEN} ->
            flatten([k \in 1..Len(slideDirs(type)) |->
              slideMoves(g, color, row, col,
                         slideDirs(type)[k][1], slideDirs(type)[k][2], 1)])
       [] type = PIECE.KING ->
            flatten([k \in 1..8 |->
              addMove(g, color, row + kingMoves[k][1], col + kingMoves[k][2],
                      FALSE, FALSE)])
            \o castlingMoves(g, row, col, color)
       [] OTHER -> <<>>

\* the board after the move, on a copy; only the board differs from g
simulateMove(g, fromRow, fromCol, toRow, toCol, promotion) ==
  LET piece == g.board[fromRow][fromCol]
      color == getPieceColor(piece)
      type == getPieceType(piece)
      isEnPassant == /\ type = PIECE.PAWN
                     /\ g.enPassantTarget # None
                     /\ toRow = g.enPassantTarget[1]
                     /\ toCol = g.enPassantTarget[2]
      captureRow == IF color = COLOR.WHITE THEN toRow + 1 ELSE toRow - 1
      b1 == IF isEnPassant
            THEN [g.board EXCEPT ![captureRow][toCol] = None]
            ELSE g.board
      b2 == [b1 EXCEPT ![toRow][toCol] =
                          IF promotion # null THEN <<color, promotion>> ELSE piece,
                       ![fromRow][fromCol] = None]
      b3 == IF type = PIECE.KING /\ abs(toCol - fromCol) = 2
            THEN IF toCol = 6
                 THEN [b2 EXCEPT ![toRow][5] = b2[toRow][7], ![toRow][7] = None]
                 ELSE IF toCol = 2
                 THEN [b2 EXCEPT ![toRow][3] = b2[toRow][0], ![toRow][0] = None]
                 ELSE b2
            ELSE b2
  IN [g EXCEPT !.board = b3]

\* fault for C1: getLegalMoves without the legality filter
getLegalMovesUnfiltered(g, row, col) ==
  LET piece == IF col \in 0..7 THEN g.board[row][col] ELSE None
      color == getPieceColor(piece)
  IN IF piece = None THEN <<>>
     ELSE IF color # g.turn THEN <<>>
     ELSE getPseudoLegalMoves(g, row, col, piece)

\* fault: getLegalMoves without the test of line 211, so that a man of the
\* side that is not to move has moves too
getLegalMovesOfEitherColour(g, row, col) ==
  LET piece == IF col \in 0..7 THEN g.board[row][col] ELSE None
      color == getPieceColor(piece)
  IN IF piece = None THEN <<>>
     ELSE SelectSeq(getPseudoLegalMoves(g, row, col, piece),
            LAMBDA move :
              ~isInCheck(simulateMove(g, row, col, move.toRow, move.toCol,
                                      move.promotion), color))

\* called with row in 0..7 only (board[row] of a missing row throws)
getLegalMoves(g, row, col) ==
  LET piece == IF col \in 0..7 THEN g.board[row][col] ELSE None
      color == getPieceColor(piece)
  IN IF piece = None THEN <<>>
     ELSE IF color # g.turn THEN <<>>
     ELSE SelectSeq(getPseudoLegalMoves(g, row, col, piece),
            LAMBDA move :
              ~isInCheck(simulateMove(g, row, col, move.toRow, move.toCol,
                                      move.promotion), color))

withFrom(r, c, move) ==
  [fromRow |-> r, fromCol |-> c, toRow |-> move.toRow, toCol |-> move.toCol,
   capture |-> move.capture, promotion |-> move.promotion, castle |-> move.castle,
   doublePawn |-> move.doublePawn, enPassant |-> move.enPassant]

getAllLegalMoves(g) ==
  flatten([i \in 1..64 |->
    LET r == (i - 1) \div 8
        c == (i - 1) % 8
        piece == g.board[r][c]
    IN IF piece # None /\ getPieceColor(piece) = g.turn
       THEN LET pieceMoves == getLegalMoves(g, r, c)
            IN [k \in 1..Len(pieceMoves) |-> withFrom(r, c, pieceMoves[k])]
       ELSE <<>>])

\* ------------------------------------------------------------------ makeMove

noRecord ==
  [from |-> None, to |-> None, piece |-> None, captured |-> None,
   promotion |-> null, castle |-> null, enPassant |-> FALSE,
   check |-> FALSE, checkmate |-> FALSE, stalemate |-> FALSE]

\* `return { game, valid: false }`
rejected(g) == [game |-> g, valid |-> FALSE, threw |-> FALSE, move |-> noRecord]

\* a TypeError leaves makeMove: nothing is returned, the caller keeps its state
thrown(g) == [game |-> g, valid |-> FALSE, threw |-> TRUE, move |-> noRecord]

\* legalMoves.find(m => m.toRow === toRow && m.toCol === toCol): its index, 0 if none
findMove(legalMoves, toRow, toCol) ==
  LET hits == {k \in 1..Len(legalMoves) :
                 legalMoves[k].toRow = toRow /\ legalMoves[k].toCol = toCol}
  IN IF hits = {} THEN 0 ELSE CHOOSE k \in hits : \A j \in hits : k <= j

\* lines 460-470: the promotion piece; rnd is Math.floor(Math.random() * 4)
choosePromotion(move, promotionOverride, rnd) ==
  IF move.promotion # null
  THEN IF promotionOverride # null THEN promotionOverride
       ELSE promotionPieces[rnd + 1]
  ELSE null

\* fault for C9: updateCastling without the capture of a rook on its corner
updateCastlingMoverOnly(castling, color, type, fromRow, fromCol, toRow, toCol) ==
  LET homeRow == IF color = COLOR.WHITE THEN 7 ELSE 0
      c1 == IF type = PIECE.KING
            THEN [castling EXCEPT ![color].kingSide = FALSE,
                                  ![color].queenSide = FALSE]
            ELSE castling
      c2 == IF type = PIECE.ROOK /\ fromRow = homeRow /\ fromCol = 0
            THEN [c1 EXCEPT ![color].queenSide = FALSE] ELSE c1
  IN IF type = PIECE.ROOK /\ fromRow = homeRow /\ fromCol = 7
     THEN [c2 EXCEPT ![color].kingSide = FALSE] ELSE c2

\* fault: updateCastling without lines 503-507, so that a rook leaving its
\* corner keeps the right
updateCastlingRookMayLeave(castling, color, type, fromRow, fromCol, toRow, toCol) ==
  LET enemyColor == opponent(color)
      enemyHomeRow == IF enemyColor = COLOR.WHITE THEN 7 ELSE 0
      c1 == IF type = PIECE.KING
            THEN [castling EXCEPT ![color].kingSide = FALSE,
                                  ![color].queenSide = FALSE]
            ELSE castling
      c2 == IF toRow = enemyHomeRow /\ toCol = 0
            THEN [c1 EXCEPT ![enemyColor].queenSide = FALSE] ELSE c1
  IN IF toRow = enemyHomeRow /\ toCol = 7
     THEN [c2 EXCEPT ![enemyColor].kingSide = FALSE] ELSE c2

\* lines 498-512
updateCastling(castling, color, type, fromRow, fromCol, toRow, toCol) ==
  LET homeRow == IF color = COLOR.WHITE THEN 7 ELSE 0
      enemyColor == opponent(color)
      enemyHomeRow == IF enemyColor = COLOR.WHITE THEN 7 ELSE 0
      c1 == IF type = PIECE.KING
            THEN [castling EXCEPT ![color].kingSide = FALSE,
                                  ![color].queenSide = FALSE]
            ELSE castling
      c2 == IF type = PIECE.ROOK /\ fromRow = homeRow /\ fromCol = 0
            THEN [c1 EXCEPT ![color].queenSide = FALSE] ELSE c1
      c3 == IF type = PIECE.ROOK /\ fromRow = homeRow /\ fromCol = 7
            THEN [c2 EXCEPT ![color].kingSide = FALSE] ELSE c2
      c4 == IF toRow = enemyHomeRow /\ toCol = 0
            THEN [c3 EXCEPT ![enemyColor].queenSide = FALSE] ELSE c3
  IN IF toRow = enemyHomeRow /\ toCol = 7
     THEN [c4 EXCEPT ![enemyColor].kingSide = FALSE] ELSE c4

\* fault for C10: updateEnPassant with the target on the wrong side of the
\* origin
updateEnPassantBehindThePawn(move, color, fromRow, fromCol) ==
  IF move.doublePawn
  THEN <<IF color = COLOR.WHITE THEN fromRow + 1 ELSE fromRow - 1, fromCol>>
  ELSE None

\* fault: updateEnPassant with the square the pawn left as the target
updateEnPassantOnTheOrigin(move, color, fromRow, fromCol) ==
  IF move.doublePawn THEN <<fromRow, fromCol>> ELSE None

\* lines 514-520
updateEnPassant(move, color, fromRow, fromCol) ==
  IF move.doublePawn
  THEN <<IF color = COLOR.WHITE THEN fromRow - 1 ELSE fromRow + 1, fromCol>>
  ELSE None

\* fault for C7: moveBoard that takes the en-passant victim from the
\* destination square
moveBoardCaptureOnTarget(g, move, piece, fromRow, fromCol, toRow, toCol, promotion) ==
  LET color == getPieceColor(piece)
      type == getPieceType(piece)
      enPassantCapture == /\ type = PIECE.PAWN
                          /\ g.enPassantTarget # None
                          /\ toRow = g.enPassantTarget[1]
                          /\ toCol = g.enPassantTarget[2]
      b1 == IF enPassantCapture
            THEN [g.board EXCEPT ![toRow][toCol] = None]
            ELSE g.board
      b2 == [b1 EXCEPT ![toRow][toCol] =
                          IF promotion # null THEN <<color, promotion>> ELSE piece,
                       ![fromRow][fromCol] = None]
  IN IF move.castle = "K"
     THEN [b2 EXCEPT ![toRow][5] = b2[toRow][7], ![toRow][7] = None]
     ELSE IF move.castle = "Q"
     THEN [b2 EXCEPT ![toRow][3] = b2[toRow][0], ![toRow][0] = None]
     ELSE b2

\* fault for C2: moveBoard whose castling puts the rook on the king's
\* destination
moveBoardRookOntoKing(g, move, piece, fromRow, fromCol, toRow, toCol, promotion) ==
  LET color == getPieceColor(piece)
      type == getPieceType(piece)
      enPassantCapture == /\ type = PIECE.PAWN
                          /\ g.enPassantTarget # None
                          /\ toRow = g.enPassantTarget[1]
                          /\ toCol = g.enPassantTarget[2]
      captureRow == IF color = COLOR.WHITE THEN toRow + 1 ELSE toRow - 1
      b1 == IF enPassantCapture
            THEN [g.board EXCEPT ![captureRow][toCol] = None]
            ELSE g.board
      b2 == [b1 EXCEPT ![toRow][toCol] =
                          IF promotion # null THEN <<color, promotion>> ELSE piece,
                       ![fromRow][fromCol] = None]
  IN IF move.castle = "K"
     THEN [b2 EXCEPT ![toRow][6] = b2[toRow][7], ![toRow][7] = None]
     ELSE IF move.castle = "Q"
     THEN [b2 EXCEPT ![toRow][2] = b2[toRow][0], ![toRow][0] = None]
     ELSE b2

\* lines 472-496: the board after the move
moveBoard(g, move, piece, fromRow, fromCol, toRow, toCol, promotion) ==
  LET color == getPieceColor(piece)
      type == getPieceType(piece)
      enPassantCapture == /\ type = PIECE.PAWN
                          /\ g.enPassantTarget # None
                          /\ toRow = g.enPassantTarget[1]
                          /\ toCol = g.enPassantTarget[2]
      captureRow == IF color = COLOR.WHITE THEN toRow + 1 ELSE toRow - 1
      b1 == IF enPassantCapture
            THEN [g.board EXCEPT ![captureRow][toCol] = None]
            ELSE g.board
      b2 == [b1 EXCEPT ![toRow][toCol] =
                          IF promotion # null THEN <<color, promotion>> ELSE piece,
                       ![fromRow][fromCol] = None]
  IN IF move.castle = "K"
     THEN [b2 EXCEPT ![toRow][5] = b2[toRow][7], ![toRow][7] = None]
     ELSE IF move.castle = "Q"
     THEN [b2 EXCEPT ![toRow][3] = b2[toRow][0], ![toRow][0] = None]
     ELSE b2

\* fault: the move number is counted up after every ply
moveStateCountingEveryPly(g, move, piece, fromRow, fromCol, toRow, toCol, promotion) ==
  LET color == getPieceColor(piece)
      type == getPieceType(piece)
  IN [g EXCEPT
        !.board = moveBoard(g, move, piece, fromRow, fromCol, toRow, toCol, promotion),
        !.castling = updateCastling(g.castling, color, type,
                                    fromRow, fromCol, toRow, toCol),
        !.enPassantTarget = updateEnPassant(move, color, fromRow, fromCol),
        !.turn = opponent(color),
        !.fullMoveNumber = @ + 1]

\* lines 449-526: the new state before the move is recorded and flagged
moveState(g, move, piece, fromRow, fromCol, toRow, toCol, promotion) ==
  LET color == getPieceColor(piece)
      type == getPieceType(piece)
  IN [g EXCEPT
        !.board = moveBoard(g, move, piece, fromRow, fromCol, toRow, toCol, promotion),
        !.castling = updateCastling(g.castling, color, type,
                                    fromRow, fromCol, toRow, toCol),
        !.enPassantTarget = updateEnPassant(move, color, fromRow, fromCol),
        !.turn = opponent(color),
        !.fullMoveNumber = IF color = COLOR.BLACK THEN @ + 1 ELSE @]

\* fault for C4: finishGame that names the mated side the winner
finishGameLoserWins(g, moveRecord, color) ==
  IF moveRecord.checkmate
  THEN [g EXCEPT !.gameOver = TRUE, !.winner = opponent(color),
                 !.gameOverReason = "checkmate"]
  ELSE IF moveRecord.stalemate
  THEN [g EXCEPT !.gameOver = TRUE, !.winner = "draw",
                 !.gameOverReason = "stalemate"]
  ELSE g

\* fault for C5: finishGame that ends the game on stalemate only
finishGameStalemateOnly(g, moveRecord, color) ==
  IF moveRecord.stalemate
  THEN [g EXCEPT !.gameOver = TRUE, !.winner = "draw",
                 !.gameOverReason = "stalemate"]
  ELSE g

\* fault: finishGame that ends the game on a check as on a checkmate
finishGameOnAnyCheck(g, moveRecord, color) ==
  IF moveRecord.checkmate \/ moveRecord.check
  THEN [g EXCEPT !.gameOver = TRUE, !.winner = color,
                 !.gameOverReason = "checkmate"]
  ELSE IF moveRecord.stalemate
  THEN [g EXCEPT !.gameOver = TRUE, !.winner = "draw",
                 !.gameOverReason = "stalemate"]
  ELSE g

\* lines 540-556: gameOver, winner and gameOverReason from the record's flags
finishGame(g, moveRecord, color) ==
  IF moveRecord.checkmate
  THEN [g EXCEPT !.gameOver = TRUE, !.winner = color,
                 !.gameOverReason = "checkmate"]
  ELSE IF moveRecord.stalemate
  THEN [g EXCEPT !.gameOver = TRUE, !.winner = "draw",
                 !.gameOverReason = "stalemate"]
  ELSE g

\* fault: the record takes the place of the last one instead of following it
pushRecordOverTheLast(moveHistory, moveRecord) ==
  IF moveHistory = <<>> THEN <<moveRecord>>
  ELSE [moveHistory EXCEPT ![Len(moveHistory)] = moveRecord]

\* line 537: newGame.moveHistory.push(moveRecord), on the copy of line 457
pushRecord(moveHistory, moveRecord) == Append(moveHistory, moveRecord)

\* lines 449-558, for the move found in the legal list
applyMove(g, move, piece, fromRow, fromCol, toRow, toCol, promotion) ==
  LET color == getPieceColor(piece)
      type == getPieceType(piece)
      enemyColor == opponent(color)
      capturedPiece == g.board[toRow][toCol]
      enPassantCapture == /\ type = PIECE.PAWN
                          /\ g.enPassantTarget # None
                          /\ toRow = g.enPassantTarget[1]
                          /\ toCol = g.enPassantTarget[2]
      moved == moveState(g, move, piece, fromRow, fromCol, toRow, toCol, promotion)
      inCheck == isInCheck(moved, enemyColor)
      hasLegalMoves == Len(getAllLegalMoves(moved)) > 0
      moveRecord ==
        [from |-> <<fromRow, fromCol>>,
         to |-> <<toRow, toCol>>,
         piece |-> piece,
         captured |-> IF capturedPiece # None THEN capturedPiece
                      ELSE IF enPassantCapture THEN <<enemyColor, PIECE.PAWN>>
                      ELSE None,
         promotion |-> promotion,
         castle |-> move.castle,
         enPassant |-> enPassantCapture,
         check |-> inCheck /\ hasLegalMoves,
         checkmate |-> inCheck /\ ~hasLegalMoves,
         stalemate |-> ~inCheck /\ ~hasLegalMoves]
      newGame == finishGame([moved EXCEPT !.moveHistory = pushRecord(@, moveRecord)],
                            moveRecord, color)
  IN [game |-> newGame, valid |-> TRUE, threw |-> FALSE, move |-> moveRecord]

\* makeMove, lines 436-558, with the list line 444 computes handed in as
\* legalMoves (it is read only once lines 437-438 have let the call through).
\* board[fromRow] of a row that does not exist is undefined and indexing it
\* throws a TypeError; a column that does not exist reads as undefined.
makeMoveWith(g, legalMoves, fromRow, fromCol, toRow, toCol, promotionOverride, rnd) ==
  IF fromRow \notin 0..7 THEN thrown(g)
  ELSE IF at(g.board, fromRow, fromCol) = None THEN rejected(g)
  ELSE LET piece == g.board[fromRow][fromCol]
           k == findMove(legalMoves, toRow, toCol)
       IN IF k = 0 THEN rejected(g)
          ELSE applyMove(g, legalMoves[k], piece, fromRow, fromCol, toRow, toCol,
                         choosePromotion(legalMoves[k], promotionOverride, rnd))

\* line 444, when the call gets that far
legalMovesOf(g, fromRow, fromCol) ==
  IF fromRow \in 0..7 THEN getLegalMoves(g, fromRow, fromCol) ELSE <<>>

makeMove(g, fromRow, fromCol, toRow, toCol, promotionOverride, rnd) ==
  makeMoveWith(g, legalMovesOf(g, fromRow, fromCol),
               fromRow, fromCol, toRow, toCol, promotionOverride, rnd)

\* ------------------------------------------------------------------- notation

\* san.js, lines 9 and 12: a string is the sequence of its characters
FILES == <<"a", "b", "c", "d", "e", "f", "g", "h">>

RANKS == <<"8", "7", "6", "5", "4", "3", "2", "1">>

\* lines 107-119: the other squares holding the same piece (colour and kind)
\* from which the destination is in the legal list, in the order of the loops
otherPieces(g, fromRow, fromCol, toRow, toCol, piece) ==
  SelectSeq([i \in 1..64 |-> <<(i - 1) \div 8, (i - 1) % 8>>],
            LAMBDA sq :
              /\ sq # <<fromRow, fromCol>>
              /\ g.board[sq[1]][sq[2]] # None
              /\ g.board[sq[1]][sq[2]] = piece
              /\ findMove(getLegalMoves(g, sq[1], sq[2]), toRow, toCol) # 0)

\* fault: the rank is tried before the file
getDisambiguationRankFirst(g, fromRow, fromCol, toRow, toCol, piece) ==
  LET others == otherPieces(g, fromRow, fromCol, toRow, toCol, piece)
      sameFile == \E k \in 1..Len(others) : others[k][2] = fromCol
      sameRank == \E k \in 1..Len(others) : others[k][1] = fromRow
  IN IF Len(others) = 0 THEN <<>>
     ELSE IF ~sameRank THEN <<RANKS[fromRow + 1]>>
     ELSE IF ~sameFile THEN <<FILES[fromCol + 1]>>
     ELSE <<FILES[fromCol + 1], RANKS[fromRow + 1]>>

\* getDisambiguation, lines 102-134
getDisambiguation(g, fromRow, fromCol, toRow, toCol, piece) ==
  LET others == otherPieces(g, fromRow, fromCol, toRow, toCol, piece)
      sameFile == \E k \in 1..Len(others) : others[k][2] = fromCol
      sameRank == \E k \in 1..Len(others) : others[k][1] = fromRow
  IN IF Len(others) = 0 THEN <<>>
     ELSE IF ~sameFile THEN <<FILES[fromCol + 1]>>
     ELSE IF ~sameRank THEN <<RANKS[fromRow + 1]>>
     ELSE <<FILES[fromCol + 1], RANKS[fromRow + 1]>>

\* ------------------------------------------------------ the object graph

\* A GameState is an object that refers to arrays and objects of its own:
\* the board array and its eight row arrays, the castling object and its two
\* per-colour objects, the moveHistory array and the enPassantTarget pair.
\* A heap is the sequence of these cells, a reference is an index into it
\* (0 is null).  Strings, numbers and booleans are values, and so are the
\* move records, which no code writes to once they are pushed.

\* a state none of whose cells is shared, at reference 1
storeGame(g) ==
  << [board |-> 2, turn |-> g.turn, castling |-> 11,
      enPassantTarget |-> IF g.enPassantTarget = None THEN 0 ELSE 15,
      halfMoveClock |-> g.halfMoveClock, fullMoveNumber |-> g.fullMoveNumber,
      moveHistory |-> 14, gameOver |-> g.gameOver, winner |-> g.winner,
      gameOverReason |-> g.gameOverReason],
     [r \in 0..7 |-> 3 + r] >>
  \o [k \in 1..8 |-> g.board[k - 1]]
  \o << [w |-> 12, b |-> 13], g.castling.w, g.castling.b, g.moveHistory >>
  \o (IF g.enPassantTarget = None THEN <<>> ELSE <<g.enPassantTarget>>)

\* the GameState a reference denotes
loadGame(heap, ref) ==
  [board |-> [r \in 0..7 |-> heap[heap[heap[ref].board][r]]],
   turn |-> heap[ref].turn,
   castling |-> [w |-> heap[heap[heap[ref].castling].w],
                 b |-> heap[heap[heap[ref].castling].b]],
   enPassantTarget |-> IF heap[ref].enPassantTarget = 0 THEN None
                       ELSE heap[heap[ref].enPassantTarget],
   halfMoveClock |-> heap[ref].halfMoveClock,
   fullMoveNumber |-> heap[ref].fullMoveNumber,
   moveHistory |-> heap[heap[ref].moveHistory],
   gameOver |-> heap[ref].gameOver,
   winner |-> heap[ref].winner,
   gameOverReason |-> heap[ref].gameOverReason]

\* the cells a state is made of
cellsOf(heap, ref) ==
  {ref, heap[ref].board, heap[ref].castling, heap[ref].moveHistory,
   heap[heap[ref].castling].w, heap[heap[ref].castling].b}
    \cup {heap[heap[ref].board][r] : r \in 0..7}
    \cup (IF heap[ref].enPassantTarget = 0 THEN {} ELSE {heap[ref].enPassantTarget})

\* fault for C12: the copy of makeMove with `board: [...game.board]`, a new
\* board array over the rows of the input
copyGameSharingRows(heap, ref) ==
  heap
  \o << [heap[ref] EXCEPT !.board = Len(heap) + 2, !.castling = Len(heap) + 3,
                          !.moveHistory = Len(heap) + 6],
        heap[heap[ref].board],
        [w |-> Len(heap) + 4, b |-> Len(heap) + 5],
        heap[heap[heap[ref].castling].w], heap[heap[heap[ref].castling].b],
        heap[heap[ref].moveHistory] >>

\* lines 449-458: newGame, at reference Len(heap) + 1.  The spread copies
\* the fields of game (the enPassantTarget reference with them); board, its
\* rows, castling, its two objects and moveHistory are new arrays and objects.
copyGame(heap, ref) ==
  heap
  \o << [heap[ref] EXCEPT !.board = Len(heap) + 2, !.castling = Len(heap) + 11,
                          !.moveHistory = Len(heap) + 14],
        [r \in 0..7 |-> Len(heap) + 3 + r] >>
  \o [k \in 1..8 |-> heap[heap[heap[ref].board][k - 1]]]
  \o << [w |-> Len(heap) + 12, b |-> Len(heap) + 13],
        heap[heap[heap[ref].castling].w], heap[heap[heap[ref].castling].b],
        heap[heap[ref].moveHistory] >>

\* the assignments `<state>.board[row][col] = ...` to the rows listed, which
\* leave them as they are in board
RECURSIVE writeRows(_, _, _, _)
writeRows(heap, ref, rows, board) ==
  IF rows = <<>> THEN heap
  ELSE writeRows([heap EXCEPT ![heap[heap[ref].board][Head(rows)]] = board[Head(rows)]],
                 ref, Tail(rows), board)

\* lines 472-556 on newGame at ref: every assignment goes through ref.  r is
\* what makeMove returns for the call; the squares written are in the rows of
\* the origin and the destination (the en-passant victim and the castling
\* rook are in one of them).
writeMove(heap, ref, r) ==
  LET h1 == writeRows(heap, ref, <<r.move.from[1], r.move.to[1]>>, r.game.board)
      h2 == [h1 EXCEPT ![h1[h1[ref].castling].w] = r.game.castling.w]
      h3 == [h2 EXCEPT ![h2[h2[ref].castling].b] = r.game.castling.b]
      h4 == IF r.game.enPassantTarget = None
            THEN [h3 EXCEPT ![ref].enPassantTarget = 0]
            ELSE Append([h3 EXCEPT ![ref].enPassantTarget = Len(h3) + 1],
                        r.game.enPassantTarget)
      h5 == [h4 EXCEPT ![ref].turn = r.game.turn,
                       ![ref].fullMoveNumber = r.game.fullMoveNumber]
      h6 == [h5 EXCEPT ![h5[ref].moveHistory] = Append(@, r.move)]
  IN [h6 EXCEPT ![ref].gameOver = r.game.gameOver,
                ![ref].winner = r.game.winner,
                ![ref].gameOverReason = r.game.gameOverReason]

\* makeMove on the state at ref, r being what it returns: a rejection returns
\* the input object itself and writes nothing
makeMoveOnHeap(heap, ref, r) ==
  IF ~r.valid THEN [heap |-> heap, game |-> ref]
  ELSE [heap |-> writeMove(copyGame(heap, ref), Len(heap) + 1, r),
        game |-> Len(heap) + 1]

\* cloneGame, lines 583-594, at reference Len(heap) + 1: every array and
\* object is new, the enPassantTarget pair and the records included
cloneGame(heap, ref) ==
  heap
  \o << [heap[ref] EXCEPT !.board = Len(heap) + 2, !.castling = Len(heap) + 11,
                          !.moveHistory = Len(heap) + 14,
                          !.enPassantTarget = IF @ = 0 THEN 0 ELSE Len(heap) + 15],
        [r \in 0..7 |-> Len(heap) + 3 + r] >>
  \o [k \in 1..8 |-> heap[heap[heap[ref].board][k - 1]]]
  \o << [w |-> Len(heap) + 12, b |-> Len(heap) + 13],
        heap[heap[heap[ref].castling].w], heap[heap[heap[ref].castling].b],
        heap[heap[ref].moveHistory] >>
  \o (IF heap[ref].enPassantTarget = 0 THEN <<>>
      ELSE <<heap[heap[ref].enPassantTarget]>>)

\* fault for C13: the copy of simulateMove with `board: [...game.board]`
copyForSimulationSharingRows(heap, ref) ==
  heap
  \o << [heap[ref] EXCEPT !.board = Len(heap) + 2, !.castling = Len(heap) + 3],
        heap[heap[ref].board],
        [w |-> Len(heap) + 4, b |-> Len(heap) + 5],
        heap[heap[heap[ref].castling].w], heap[heap[heap[ref].castling].b] >>

\* simulateMove, lines 394-401: newGame at reference Len(heap) + 1, with a
\* new board, new rows and new castling objects; moveHistory and
\* enPassantTarget are the input's
copyForSimulation(heap, ref) ==
  heap
  \o << [heap[ref] EXCEPT !.board = Len(heap) + 2, !.castling = Len(heap) + 11],
        [r \in 0..7 |-> Len(heap) + 3 + r] >>
  \o [k \in 1..8 |-> heap[heap[heap[ref].board][k - 1]]]
  \o << [w |-> Len(heap) + 12, b |-> Len(heap) + 13],
        heap[heap[heap[ref].castling].w], heap[heap[heap[ref].castling].b] >>

\* simulateMove, lines 403-429: the squares it assigns are in the rows of the
\* origin and the destination of the copy
simulateOnHeap(heap, ref, fromRow, fromCol, toRow, toCol, promotion) ==
  writeRows(copyForSimulation(heap, ref), Len(heap) + 1, <<fromRow, toRow>>,
            simulateMove(loadGame(heap, ref), fromRow, fromCol, toRow, toCol,
                         promotion).board)

\* getLegalMoves, lines 214-217: one simulateMove for each candidate, one
\* after the other; isInCheck and isSquareAttacked assign nothing
RECURSIVE simulateAllOnHeap(_, _, _, _, _)
simulateAllOnHeap(heap, ref, row, col, candidates) ==
  IF candidates = <<>> THEN heap
  ELSE CHOOSE out \in
         {simulateAllOnHeap(h, ref, row, col, Tail(candidates)) :
            h \in {simulateOnHeap(heap, ref, row, col, Head(candidates).toRow,
                                  Head(candidates).toCol, Head(candidates).promotion)}} :
         TRUE

\* the heap getLegalMoves leaves behind
getLegalMovesOnHeap(heap, ref, row, col) ==
  LET g == loadGame(heap, ref)
      piece == g.board[row][col]
  IN IF piece = None \/ getPieceColor(piece) # g.turn THEN heap
     ELSE simulateAllOnHeap(heap, ref, row, col,
                            getPseudoLegalMoves(g, row, col, piece))

\* the heap getAllLegalMoves leaves behind, from square i (0..63) on
RECURSIVE getAllLegalMovesOnHeap(_, _, _)
getAllLegalMovesOnHeap(heap, ref, i) ==
  IF i > 63 THEN heap
  ELSE CHOOSE out \in
         {getAllLegalMovesOnHeap(h, ref, i + 1) :
            h \in {getLegalMovesOnHeap(heap, ref, i \div 8, i % 8)}} :
         TRUE

\* --------------------------------------------------------- the move selector
\* src/unnamed/part_001 (ai.js)

PIECE_VALUES == [p |-> 100, n |-> 320, b |-> 330, r |-> 500, q |-> 900, k |-> 20000]

\* piece-square tables, from White's side: PST[type][row + 1][col + 1]
PST ==
  [p |-> << <<0, 0, 0, 0, 0, 0, 0, 0>>,
            <<50, 50, 50, 50, 50, 50, 50, 50>>,
            <<10, 10, 20, 30, 30, 20, 10, 10>>,
            <<5, 5, 10, 25, 25, 10, 5, 5>>,
            <<0, 0, 0, 20, 20, 0, 0, 0>>,
            <<5, -5, -10, 0, 0, -10, -5, 5>>,
            <<5, 10, 10, -20, -20, 10, 10, 5>>,
            <<0, 0, 0, 0, 0, 0, 0, 0>> >>,
   n |-> << <<-50, -40, -30, -30, -30, -30, -40, -50>>,
            <<-40, -20, 0, 0, 0, 0, -20, -40>>,
            <<-30, 0, 10, 15, 15, 10, 0, -30>>,
            <<-30, 5, 15, 20, 20, 15, 5, -30>>,
            <<-30, 0, 15, 20, 20, 15, 0, -30>>,
            <<-30, 5, 10, 15, 15, 10, 5, -30>>,
            <<-40, -20, 0, 5, 5, 0, -20, -40>>,
            <<-50, -40, -30, -30, -30, -30, -40, -50>> >>,
   b |-> << <<-20, -10, -10, -10, -10, -10, -10, -20>>,
            <<-10, 0, 0, 0, 0, 0, 0, -10>>,
            <<-10, 0, 5, 10, 10, 5, 0, -10>>,
            <<-10, 5, 5, 10, 10, 5, 5, -10>>,
            <<-10, 0, 10, 10, 10, 10, 0, -10>>,
            <<-10, 10, 10, 10, 10, 10, 10, -10>>,
            <<-10, 5, 0, 0, 0, 0, 5, -10>>,
            <<-20, -10, -10, -10, -10, -10, -10, -20>> >>,
   r |-> << <<0, 0, 0, 0, 0, 0, 0, 0>>,
            <<5, 10, 10, 10, 10, 10, 10, 5>>,
            <<-5, 0, 0, 0, 0, 0, 0, -5>>,
            <<-5, 0, 0, 0, 0, 0, 0, -5>>,
            <<-5, 0, 0, 0, 0, 0, 0, -5>>,
            <<-5, 0, 0, 0, 0, 0, 0, -5>>,
            <<-5, 0, 0, 0, 0, 0, 0, -5>>,
            <<0, 0, 0, 5, 5, 0, 0, 0>> >>,
   q |-> << <<-20, -10, -10, -5, -5, -10, -10, -20>>,
            <<-10, 0, 0, 0, 0, 0, 0, -10>>,
            <<-10, 0, 5, 5, 5, 5, 0, -10>>,
            <<-5, 0, 5, 5, 5, 5, 0, -5>>,
            <<0, 0, 5, 5, 5, 5, 0, -5>>,
            <<-10, 5, 5, 5, 5, 5, 0, -10>>,
            <<-10, 0, 5, 0, 0, 0, 0, -10>>,
            <<-20, -10, -10, -5, -5, -10, -10, -20>> >>,
   k |-> << <<-30, -40, -40, -50, -50, -40, -40, -30>>,
            <<-30, -40, -40, -50, -50, -40, -40, -30>>,
            <<-30, -40, -40, -50, -50, -40, -40, -30>>,
            <<-30, -40, -40, -50, -50, -40, -40, -30>>,
            <<-20, -30, -30, -40, -40, -30, -30, -20>>,
            <<-10, -20, -20, -20, -20, -20, -20, -10>>,
            <<20, 20, 0, 0, 0, 0, 20, 20>>,
            <<20, 30, 10, 0, 0, 10, 30, 20>> >>]

\* Infinity: above every score the search can return
Infinity == 1000000

max(a, b) == IF a >= b THEN a ELSE b

min(a, b) == IF a <= b THEN a ELSE b

\* fault: Black's pieces read the table by their own row, unmirrored
squareScoreUnmirrored(g, row, col) ==
  LET piece == g.board[row][col]
      color == getPieceColor(piece)
      type == getPieceType(piece)
      multiplier == IF color = COLOR.WHITE THEN 1 ELSE -1
  IN IF piece = None THEN 0
     ELSE multiplier * PIECE_VALUES[type] + multiplier * PST[type][row + 1][col + 1]

\* lines 99-111: what one square adds to the score
squareScore(g, row, col) ==
  LET piece == g.board[row][col]
      color == getPieceColor(piece)
      type == getPieceType(piece)
      multiplier == IF color = COLOR.WHITE THEN 1 ELSE -1
      pstRow == IF color = COLOR.WHITE THEN row ELSE 7 - row
  IN IF piece = None THEN 0
     ELSE multiplier * PIECE_VALUES[type] + multiplier * PST[type][pstRow + 1][col + 1]

RECURSIVE boardScore(_, _)
\* the loops of lines 97-113 from square i (0..63) on
boardScore(g, i) ==
  IF i > 63 THEN 0 ELSE squareScore(g, i \div 8, i % 8) + boardScore(g, i + 1)

evaluate(g) ==
  boardScore(g, 0)
    + (IF isInCheck(g, COLOR.BLACK) THEN 50 ELSE 0)
    - (IF isInCheck(g, COLOR.WHITE) THEN 50 ELSE 0)

\* lines 141-146: captures first; the sort is stable
orderMoves(moves) ==
  SelectSeq(moves, LAMBDA m : m.capture) \o SelectSeq(moves, LAMBDA m : ~m.capture)

\* body applied to value, which is computed once (a const of the source)
bind(value, body(_)) == CHOOSE out \in {body(x) : x \in {value}} : TRUE

\* Minimax, lines 125-171.  rnd is what Math.floor(Math.random() * 4) gives
\* in the makeMove calls of the search (none passes a promotionOverride).
\* The loops of lines 150-157 (maximizing) and 161-168 carry loop, the record
\* of maxEval or minEval (best), alpha, beta and whether the loop has been
\* left by its break.
RECURSIVE minimax(_, _, _, _, _, _)

\* fault: the loop is left when the score reaches the bound of the side to
\* move (alpha when maximizing), not that of its opponent
searchMoveCuttingOnItsOwnBound(g, move, depth, maximizing, rnd, loop) ==
  IF loop.broke THEN loop
  ELSE bind(makeMove(g, move.fromRow, move.fromCol, move.toRow, move.toCol, null, rnd),
         LAMBDA result :
           IF ~result.valid THEN loop
           ELSE bind(minimax(result.game, depth - 1, loop.alpha, loop.beta,
                             ~maximizing, rnd),
                  LAMBDA evalScore :
                    IF maximizing
                    THEN [best |-> max(loop.best, evalScore),
                          alpha |-> max(loop.alpha, evalScore),
                          beta |-> loop.beta,
                          broke |-> loop.alpha <= evalScore]
                    ELSE [best |-> min(loop.best, evalScore),
                          alpha |-> loop.alpha,
                          beta |-> min(loop.beta, evalScore),
                          broke |-> evalScore <= loop.beta]))

\* one turn of the loop, for move
searchMove(g, move, depth, maximizing, rnd, loop) ==
  IF loop.broke THEN loop
  ELSE bind(makeMove(g, move.fromRow, move.fromCol, move.toRow, move.toCol, null, rnd),
         LAMBDA result :
           IF ~result.valid THEN loop
           ELSE bind(minimax(result.game, depth - 1, loop.alpha, loop.beta,
                             ~maximizing, rnd),
                  LAMBDA evalScore :
                    IF maximizing
                    THEN [best |-> max(loop.best, evalScore),
                          alpha |-> max(loop.alpha, evalScore),
                          beta |-> loop.beta,
                          broke |-> loop.beta <= max(loop.alpha, evalScore)]
                    ELSE [best |-> min(loop.best, evalScore),
                          alpha |-> loop.alpha,
                          beta |-> min(loop.beta, evalScore),
                          broke |-> min(loop.beta, evalScore) <= loop.alpha]))

RECURSIVE searchMoves(_, _, _, _, _, _, _, _)
\* the turns of the loop for moves[lo..hi] in order, entered with loop: the
\* first half of them, then the second
searchMoves(g, moves, lo, hi, depth, maximizing, rnd, loop) ==
  IF lo = hi THEN searchMove(g, moves[lo], depth, maximizing, rnd, loop)
  ELSE bind(searchMoves(g, moves, lo, (lo + hi) \div 2, depth, maximizing, rnd, loop),
         LAMBDA half :
           searchMoves(g, moves, (lo + hi) \div 2 + 1, hi, depth, maximizing, rnd, half))

minimax(g, depth, alpha, beta, maximizing, rnd) ==
  IF depth = 0 \/ g.gameOver THEN evaluate(g)
  ELSE bind(getAllLegalMoves(g),
         LAMBDA moves :
           IF Len(moves) = 0
           THEN IF isInCheck(g, g.turn)
                THEN IF maximizing THEN -100000 + (5 - depth) ELSE 100000 - (5 - depth)
                ELSE 0
           ELSE bind(<<orderMoves(moves), depth,
                       [best |-> IF maximizing THEN -Infinity ELSE Infinity,
                        alpha |-> alpha, beta |-> beta, broke |-> FALSE]>>,
                  LAMBDA args :
                    searchMoves(g, args[1], 1, Len(args[1]), args[2], maximizing, rnd,
                                args[3]).best))

RECURSIVE chooseBestLastWins(_, _, _, _, _, _)
\* fault: a move whose score equals the best so far replaces it
chooseBestLastWins(g, moves, k, bestMove, bestScore, rnd) ==
  IF k > Len(moves) THEN bestMove
  ELSE bind(makeMove(g, moves[k].fromRow, moves[k].fromCol,
                     moves[k].toRow, moves[k].toCol, null, rnd),
         LAMBDA result :
           IF ~result.valid
           THEN chooseBestLastWins(g, moves, k + 1, bestMove, bestScore, rnd)
           ELSE bind(minimax(result.game, 4 - 1, -Infinity, Infinity,
                             g.turn # COLOR.WHITE, rnd),
                  LAMBDA score :
                    IF (IF g.turn = COLOR.WHITE THEN score >= bestScore
                        ELSE score <= bestScore)
                    THEN chooseBestLastWins(g, moves, k + 1, moves[k], score, rnd)
                    ELSE chooseBestLastWins(g, moves, k + 1, bestMove, bestScore, rnd)))

\* lines 186-196 from the k-th move on: the search depth is 4, so the child
\* of every root move is searched to depth 3 with the full window
RECURSIVE chooseBest(_, _, _, _, _, _)
chooseBest(g, moves, k, bestMove, bestScore, rnd) ==
  IF k > Len(moves) THEN bestMove
  ELSE bind(makeMove(g, moves[k].fromRow, moves[k].fromCol,
                     moves[k].toRow, moves[k].toCol, null, rnd),
         LAMBDA result :
           IF ~result.valid THEN chooseBest(g, moves, k + 1, bestMove, bestScore, rnd)
           ELSE bind(minimax(result.game, 4 - 1, -Infinity, Infinity,
                             g.turn # COLOR.WHITE, rnd),
                  LAMBDA score :
                    IF (IF g.turn = COLOR.WHITE THEN score > bestScore
                        ELSE score < bestScore)
                    THEN chooseBest(g, moves, k + 1, moves[k], score, rnd)
                    ELSE chooseBest(g, moves, k + 1, bestMove, bestScore, rnd)))

\* Hard AI, lines 176-199; a null move is None
getHardMoveFrom(g, moves, rnd) ==
  IF Len(moves) = 0 THEN None
  ELSE chooseBest(g, moves, 1, None,
                  IF g.turn = COLOR.WHITE THEN -Infinity ELSE Infinity, rnd)

getHardMove(g, rnd) == getHardMoveFrom(g, getAllLegalMoves(g), rnd)

\* Math.random() gives a number in [0, 1): here in thousandths
Randoms == {0, 50, 500, 999}

\* Math.floor(Math.random() * n)
floorOf(r, n) == (r * n) \div 1000

captures(moves) == SelectSeq(moves, LAMBDA m : m.capture)

\* Easy AI, lines 204-219; r1 and r2 are the first and the second
\* Math.random() of the call
getEasyMoveFrom(moves, r1, r2) ==
  IF Len(moves) = 0 THEN None
  ELSE IF r1 < 100 /\ Len(captures(moves)) > 0
  THEN captures(moves)[floorOf(r2, Len(captures(moves))) + 1]
  ELSE moves[floorOf(r2, Len(moves)) + 1]

getEasyMove(g, r1, r2) == getEasyMoveFrom(getAllLegalMoves(g), r1, r2)

\* chaos mode state, lines 226-231; rulesCorruption is kept in thirtieths
\* (Math.min(1, turnCount / 30) is rulesCorruption / 30 here)
initialChaosState ==
  [turnCount |-> 0, winTurn |-> 0, rulesCorruption |-> 0, comments |-> <<>>]

\* lines 236-244; r is the Math.random() of line 239
initChaosMode(r) ==
  [turnCount |-> 0, winTurn |-> floorOf(r, 50) + 1, rulesCorruption |-> 0,
   comments |-> <<>>]

\* lines 308-311: a comment is modelled by its category
getComment(category) == category

\* lines 320-325
newResponse == [move |-> None, comment |-> null, botWins |-> FALSE, cheat |-> FALSE]

\* lines 335-345: the comment on the player's move; playerMove is None when
\* the caller passes none
commentOn(playerMove, draws) ==
  IF playerMove = None THEN null
  ELSE IF playerMove.capture \/ playerMove.check THEN getComment("good")
  ELSE IF draws.bad < 300 THEN getComment("bad")
  ELSE IF draws.chaos < 200 THEN getComment("chaos")
  ELSE getComment("neutral")

\* lines 356-361: rulesCorruption > 0.5, Math.random() < rulesCorruption * 0.5
\* and Math.random() < 0.3
weirdComment(cs, draws, comment) ==
  IF 2 * cs.rulesCorruption > 30 /\ 60 * draws.weird < 1000 * cs.rulesCorruption
       /\ draws.weirdComment < 300
  THEN getComment("chaos")
  ELSE comment

\* fault: above a corruption of 0.3 the weighted pick sends the piece to the
\* square it comes from, mirrored in the board's centre
pickMoveBendingTheRules(cs, moves, draws) ==
  IF 10 * cs.rulesCorruption > 90 /\ draws.weighted < 400
  THEN [moves[floorOf(draws.pick, Len(moves)) + 1] EXCEPT
          !.toRow = 7 - @, !.toCol = 7 - @]
  ELSE moves[floorOf(draws.pick, Len(moves)) + 1]

\* lines 364-373: rulesCorruption > 0.3 and Math.random() < 0.4
pickMove(cs, moves, draws) ==
  IF 10 * cs.rulesCorruption > 90 /\ draws.weighted < 400 /\ Len(captures(moves)) > 0
  THEN captures(moves)[floorOf(draws.pick, Len(captures(moves))) + 1]
  ELSE moves[floorOf(draws.pick, Len(moves)) + 1]

\* lines 317-318
countTurn(cs) ==
  [cs EXCEPT !.turnCount = cs.turnCount + 1,
             !.rulesCorruption = min(30, cs.turnCount + 1)]

\* fault: with no legal move the response carries a move, from a1 to a1
getChaosMoveFromNeverStuck(cs, moves, playerMove, draws) ==
  LET counted == countTurn(cs)
  IN IF counted.turnCount >= counted.winTurn
     THEN [chaosState |-> counted,
           response |-> [newResponse EXCEPT !.botWins = TRUE,
                                            !.comment = getComment("winning")]]
     ELSE [chaosState |-> counted,
           response |->
             [newResponse EXCEPT
                !.comment = weirdComment(counted, draws, commentOn(playerMove, draws)),
                !.move = IF Len(moves) = 0
                         THEN [fromRow |-> 7, fromCol |-> 0, toRow |-> 7, toCol |-> 0,
                               capture |-> FALSE, promotion |-> null, castle |-> null,
                               doublePawn |-> FALSE, enPassant |-> FALSE]
                         ELSE pickMove(counted, moves, draws)]]

\* Chaos AI, lines 316-374, on chaos state cs: the chaos state it leaves and
\* the response it returns.  draws names the Math.random() of each place.
getChaosMoveFrom(cs, moves, playerMove, draws) ==
  LET counted == countTurn(cs)
  IN IF counted.turnCount >= counted.winTurn
     THEN [chaosState |-> counted,
           response |-> [newResponse EXCEPT !.botWins = TRUE,
                                            !.comment = getComment("winning")]]
     ELSE IF Len(moves) = 0
     THEN [chaosState |-> counted,
           response |-> [newResponse EXCEPT !.comment = getComment("chaos")]]
     ELSE [chaosState |-> counted,
           response |->
             [newResponse EXCEPT
                !.comment = weirdComment(counted, draws, commentOn(playerMove, draws)),
                !.move = pickMove(counted, moves, draws)]]

getChaosMove(cs, g, playerMove, draws) ==
  getChaosMoveFrom(cs, getAllLegalMoves(g), playerMove, draws)

\* the Math.random() of one call of getAIMove, by the place that draws: rnd
\* is the promotion draw of the hard search, r1 and r2 are the draws of
\* getEasyMove, the others those of getChaosMove
noDraws ==
  [rnd |-> 0, r1 |-> 0, r2 |-> 0, bad |-> 0, chaos |-> 0, weird |-> 0,
   weirdComment |-> 0, weighted |-> 0, pick |-> 0]

\* fault: every call counts a turn of the chaos game, whatever the difficulty
getAIMoveCountingEveryCall(cs, g, moves, level, draws) ==
  CASE level = "hard" ->
         [chaosState |-> countTurn(cs),
          response |-> [newResponse EXCEPT
                          !.move = getHardMoveFrom(g, moves, draws.rnd)]]
    [] level = "chaos" -> getChaosMoveFrom(cs, moves, None, draws)
    [] OTHER ->
         [chaosState |-> countTurn(cs),
          response |-> [newResponse EXCEPT
                          !.move = getEasyMoveFrom(moves, draws.r1, draws.r2)]]

\* getAIMove, lines 390-401, with the legal moves of g handed in: the chaos
\* state it leaves and what it returns.  The object returned for 'hard' and
\* 'easy' has no botWins and no cheat: they read as undefined, so falsy.
\* getChaosMove is called with the game alone, so its playerMove is null.
getAIMove(cs, g, moves, level, draws) ==
  CASE level = "hard" ->
         [chaosState |-> cs,
          response |-> [newResponse EXCEPT
                          !.move = getHardMoveFrom(g, moves, draws.rnd)]]
    [] level = "chaos" -> getChaosMoveFrom(cs, moves, None, draws)
    [] OTHER ->
         [chaosState |-> cs,
          response |-> [newResponse EXCEPT
                          !.move = getEasyMoveFrom(moves, draws.r1, draws.r2)]]

\* ------------------------------------------------------------ the caller

\* The games the caller follows, as the makeMove calls
\* <<fromRow, fromCol, toRow, toCol, promotionOverride>> of their plies.  Each
\* ends in the position its comment names.
Book ==
  <<
    \* the initial position
    <<
       >>,
    \* fool's mate
    <<
       <<6, 5, 5, 5, null>>, <<1, 4, 3, 4, null>>, <<6, 6, 4, 6, null>>, <<0, 3, 4, 7, null>> >>,
    \* White may capture en passant on d6
    <<
       <<6, 4, 4, 4, null>>, <<1, 0, 2, 0, null>>, <<4, 4, 3, 4, null>>, <<1, 3, 3, 3, null>> >>,
    \* ... and did not: the chance is gone
    <<
       <<6, 4, 4, 4, null>>, <<1, 0, 2, 0, null>>, <<4, 4, 3, 4, null>>, <<1, 3, 3, 3, null>>,
       <<6, 7, 5, 7, null>>, <<1, 7, 2, 7, null>> >>,
    \* Black may capture en passant on d3
    <<
       <<6, 7, 5, 7, null>>, <<1, 4, 3, 4, null>>, <<5, 7, 4, 7, null>>, <<3, 4, 4, 4, null>>,
       <<6, 3, 4, 3, null>> >>,
    \* White may castle on either side
    <<
       <<6, 4, 4, 4, null>>, <<1, 4, 3, 4, null>>, <<7, 6, 5, 5, null>>, <<0, 1, 2, 2, null>>,
       <<7, 5, 4, 2, null>>, <<0, 5, 3, 2, null>>, <<6, 3, 5, 3, null>>, <<1, 3, 2, 3, null>>,
       <<7, 1, 5, 2, null>>, <<0, 6, 2, 5, null>>, <<7, 2, 3, 6, null>>, <<0, 2, 4, 6, null>>,
       <<7, 3, 6, 3, null>>, <<0, 3, 1, 3, null>> >>,
    \* White has castled queen side, Black king side
    <<
       <<6, 4, 4, 4, null>>, <<1, 4, 3, 4, null>>, <<7, 6, 5, 5, null>>, <<0, 1, 2, 2, null>>,
       <<7, 5, 4, 2, null>>, <<0, 5, 3, 2, null>>, <<6, 3, 5, 3, null>>, <<1, 3, 2, 3, null>>,
       <<7, 1, 5, 2, null>>, <<0, 6, 2, 5, null>>, <<7, 2, 3, 6, null>>, <<0, 2, 4, 6, null>>,
       <<7, 3, 6, 3, null>>, <<0, 3, 1, 3, null>>, <<7, 4, 7, 2, null>>, <<0, 4, 0, 6, null>> >>,
    \* f1 is attacked by the bishop on a6, e1 and g1 are not
    <<
       <<6, 4, 4, 4, null>>, <<1, 1, 2, 1, null>>, <<6, 6, 5, 6, null>>, <<0, 2, 2, 0, null>>,
       <<7, 5, 6, 6, null>>, <<1, 4, 2, 4, null>>, <<7, 6, 5, 5, null>>, <<0, 1, 2, 2, null>> >>,
    \* ... the diagonal is closed, and the rook has left h1 and come back
    <<
       <<6, 4, 4, 4, null>>, <<1, 1, 2, 1, null>>, <<6, 6, 5, 6, null>>, <<0, 2, 2, 0, null>>,
       <<7, 5, 6, 6, null>>, <<1, 4, 2, 4, null>>, <<7, 6, 5, 5, null>>, <<0, 1, 2, 2, null>>,
       <<6, 3, 5, 3, null>>, <<0, 6, 2, 5, null>>, <<7, 7, 7, 6, null>>, <<0, 5, 1, 4, null>>,
       <<7, 6, 7, 7, null>>, <<1, 3, 2, 3, null>> >>,
    \* White may capture the rook on h8
    <<
       <<6, 1, 5, 1, null>>, <<1, 6, 3, 6, null>>, <<7, 2, 6, 1, null>>, <<3, 6, 4, 6, null>> >>,
    \* White may promote on a8 or by capturing on b8
    <<
       <<6, 0, 4, 0, null>>, <<1, 1, 3, 1, null>>, <<4, 0, 3, 1, null>>, <<1, 0, 2, 0, null>>,
       <<3, 1, 2, 0, null>>, <<0, 1, 2, 2, null>>, <<2, 0, 1, 0, null>>, <<0, 0, 0, 1, null>> >>,
    \* Black is in check (Loyd's game)
    <<
       <<6, 4, 5, 4, null>>, <<1, 0, 3, 0, null>>, <<7, 3, 3, 7, null>>, <<0, 0, 2, 0, null>>,
       <<3, 7, 3, 0, null>>, <<1, 7, 3, 7, null>>, <<6, 7, 4, 7, null>>, <<2, 0, 2, 7, null>>,
       <<3, 0, 1, 2, null>>, <<1, 5, 2, 5, null>>, <<1, 2, 1, 3, null>> >>,
    \* ... which ends in stalemate
    <<
       <<6, 4, 5, 4, null>>, <<1, 0, 3, 0, null>>, <<7, 3, 3, 7, null>>, <<0, 0, 2, 0, null>>,
       <<3, 7, 3, 0, null>>, <<1, 7, 3, 7, null>>, <<6, 7, 4, 7, null>>, <<2, 0, 2, 7, null>>,
       <<3, 0, 1, 2, null>>, <<1, 5, 2, 5, null>>, <<1, 2, 1, 3, null>>, <<0, 4, 1, 5, null>>,
       <<1, 3, 1, 1, null>>, <<0, 3, 5, 3, null>>, <<1, 1, 0, 1, null>>, <<5, 3, 1, 7, null>>,
       <<0, 1, 0, 2, null>>, <<1, 5, 2, 6, null>>, <<0, 2, 2, 4, null>> >>,
    \* White's rook has captured on g8 with check; seven men are left
    <<
       <<6, 3, 4, 3, null>>, <<1, 2, 3, 2, null>>, <<4, 3, 3, 2, null>>, <<1, 1, 3, 1, null>>,
       <<3, 2, 2, 1, null>>, <<0, 3, 2, 1, null>>, <<7, 3, 1, 3, null>>, <<0, 2, 1, 3, null>>,
       <<6, 0, 4, 0, null>>, <<1, 3, 4, 0, null>>, <<7, 0, 4, 0, null>>, <<2, 1, 6, 1, null>>,
       <<4, 0, 1, 0, null>>, <<6, 1, 6, 2, null>>, <<1, 0, 0, 0, null>>, <<6, 2, 7, 1, null>>,
       <<0, 0, 0, 1, null>>, <<7, 1, 0, 1, null>>, <<7, 2, 6, 1, null>>, <<0, 1, 6, 7, null>>,
       <<6, 1, 1, 6, null>>, <<6, 7, 6, 6, null>>, <<7, 7, 1, 7, null>>, <<6, 6, 7, 6, null>>,
       <<1, 6, 0, 5, null>>, <<0, 4, 0, 5, null>>, <<1, 7, 0, 7, null>>, <<7, 6, 7, 5, null>>,
       <<7, 4, 7, 5, null>>, <<1, 5, 3, 5, null>>, <<0, 7, 0, 6, null>> >>,
    \* four pawns and the kings are left: Black may capture on e4
    <<
       <<6, 3, 4, 3, null>>, <<1, 2, 3, 2, null>>, <<4, 3, 3, 2, null>>, <<1, 1, 3, 1, null>>,
       <<3, 2, 2, 1, null>>, <<0, 3, 2, 1, null>>, <<7, 3, 1, 3, null>>, <<0, 2, 1, 3, null>>,
       <<6, 0, 4, 0, null>>, <<1, 3, 4, 0, null>>, <<7, 0, 4, 0, null>>, <<2, 1, 6, 1, null>>,
       <<4, 0, 1, 0, null>>, <<6, 1, 6, 2, null>>, <<1, 0, 0, 0, null>>, <<6, 2, 7, 1, null>>,
       <<0, 0, 0, 1, null>>, <<7, 1, 0, 1, null>>, <<7, 2, 6, 1, null>>, <<0, 1, 6, 7, null>>,
       <<6, 1, 1, 6, null>>, <<6, 7, 6, 6, null>>, <<7, 7, 1, 7, null>>, <<6, 6, 7, 6, null>>,
       <<1, 6, 0, 5, null>>, <<0, 4, 0, 5, null>>, <<1, 7, 0, 7, null>>, <<7, 6, 7, 5, null>>,
       <<7, 4, 7, 5, null>>, <<1, 5, 3, 5, null>>, <<0, 7, 0, 6, null>>, <<0, 5, 0, 6, null>>,
       <<6, 4, 4, 4, null>> >>,
    \* ... two pawns are left and have reached e3 and f3, two plies from promoting
    <<
       <<6, 3, 4, 3, null>>, <<1, 2, 3, 2, null>>, <<4, 3, 3, 2, null>>, <<1, 1, 3, 1, null>>,
       <<3, 2, 2, 1, null>>, <<0, 3, 2, 1, null>>, <<7, 3, 1, 3, null>>, <<0, 2, 1, 3, null>>,
       <<6, 0, 4, 0, null>>, <<1, 3, 4, 0, null>>, <<7, 0, 4, 0, null>>, <<2, 1, 6, 1, null>>,
       <<4, 0, 1, 0, null>>, <<6, 1, 6, 2, null>>, <<1, 0, 0, 0, null>>, <<6, 2, 7, 1, null>>,
       <<0, 0, 0, 1, null>>, <<7, 1, 0, 1, null>>, <<7, 2, 6, 1, null>>, <<0, 1, 6, 7, null>>,
       <<6, 1, 1, 6, null>>, <<6, 7, 6, 6, null>>, <<7, 7, 1, 7, null>>, <<6, 6, 7, 6, null>>,
       <<1, 6, 0, 5, null>>, <<0, 4, 0, 5, null>>, <<1, 7, 0, 7, null>>, <<7, 6, 7, 5, null>>,
       <<7, 4, 7, 5, null>>, <<1, 5, 3, 5, null>>, <<0, 7, 0, 6, null>>, <<0, 5, 0, 6, null>>,
       <<6, 4, 4, 4, null>>, <<3, 5, 4, 4, null>>, <<6, 5, 5, 5, null>>, <<4, 4, 5, 5, null>>,
       <<7, 5, 7, 6, null>>, <<1, 4, 3, 4, null>>, <<7, 6, 7, 7, null>>, <<3, 4, 4, 4, null>>,
       <<7, 7, 7, 6, null>>, <<4, 4, 5, 4, null>> >>,
    \* White's knights stand on d2 and d4: either may go to b3 or to f3
    <<
       <<6, 3, 5, 3, null>>, <<1, 7, 2, 7, null>>, <<7, 1, 6, 3, null>>, <<2, 7, 3, 7, null>>,
       <<7, 6, 5, 5, null>>, <<3, 7, 4, 7, null>>, <<5, 5, 4, 3, null>>, <<4, 7, 5, 7, null>> >>
  >>

\* Within this many plies of the end of a followed game the caller tries
\* every call, not only the game's own.
ProbeDepth == 1

\* the coordinates a caller passes: the board's and one beyond each edge
Coord == -1..8

PromotionChoices == {null, PIECE.QUEEN, PIECE.ROOK, PIECE.BISHOP, PIECE.KNIGHT}

\* the record of ply i is the call Book[l][i]
followsAt(history, l, i) ==
  /\ history[i].from = <<Book[l][i][1], Book[l][i][2]>>
  /\ history[i].to = <<Book[l][i][3], Book[l][i][4]>>
  /\ Book[l][i][5] \in {null, history[i].promotion}

\* the games of the book that start with history
following(history) ==
  {l \in 1..Len(Book) :
     /\ Len(history) <= Len(Book[l])
     /\ \A i \in 1..Len(history) : followsAt(history, l, i)}

inBook(history) == following(history) # {}

probing(history) ==
  \E l \in following(history) : Len(Book[l]) - Len(history) <= ProbeDepth

\* destinations that are never special: off the board and on it
ProbeSquares == {<<-1, 3>>, <<3, 8>>, <<0, 0>>, <<4, 4>>}

\* The destinations tried from one origin: every destination of its legal
\* list, and the probes.  Line 445 only compares the destination with the
\* list's entries, so every other destination takes the path of a probe.
destinationsFor(legalMoves) ==
  {<<legalMoves[k].toRow, legalMoves[k].toCol>> : k \in 1..Len(legalMoves)}
    \cup ProbeSquares

\* promotionOverride is read only when the move found is a promotion, and
\* Math.random is drawn only when it is one and no override was passed
overridesFor(legalMoves, toRow, toCol) ==
  LET k == findMove(legalMoves, toRow, toCol)
  IN IF k # 0 /\ legalMoves[k].promotion # null THEN PromotionChoices ELSE {null}

drawsFor(legalMoves, toRow, toCol, promotionOverride) ==
  LET k == findMove(legalMoves, toRow, toCol)
  IN IF k # 0 /\ legalMoves[k].promotion # null /\ promotionOverride = null
     THEN 0..3 ELSE {0}

\* no selector has been asked: aiResult is assigned at line 537 of part_002
noResult ==
  [difficulty |-> "none", rnd |-> 0, move |-> None, comment |-> null,
   botWins |-> FALSE, cheat |-> FALSE]

\* no game-over banner is shown (startNewGame, lines 136-140 of part_002)
noBanner == [winner |-> null, reason |-> null]

\* init, lines 92-114 of part_002, has run: it starts the first game at the
\* difficulty 'easy' of line 81
Init ==
  /\ game = createGame
  /\ ret = rejected(createGame)
  /\ onBook = TRUE
  /\ aiResult = noResult
  /\ chaosState = initialChaosState
  /\ difficulty = "easy"
  /\ isAnimating = FALSE
  /\ declared = noBanner
  /\ gameNo = 1
  /\ tasks = {}
  /\ askedBy = 0

\* The caller calls makeMove on the state it holds and keeps result.game
\* (when makeMove throws it keeps the state it had).  After a call that is
\* not a game of the book, or that was refused, it makes no further call.
Call(fromRow, fromCol, toRow, toCol, promotionOverride, rnd, legalMoves) ==
  /\ ret' = makeMoveWith(game, legalMoves, fromRow, fromCol, toRow, toCol,
                         promotionOverride, rnd)
  /\ game' = ret'.game
  /\ onBook' = (ret'.valid /\ inBook(ret'.game.moveHistory))
  /\ UNCHANGED <<aiResult, chaosState>>
  /\ UNCHANGED page

\* the next call of a followed game
FollowBook ==
  /\ onBook
  /\ \E l \in following(game.moveHistory) :
       /\ Len(game.moveHistory) < Len(Book[l])
       /\ \E call \in {Book[l][Len(game.moveHistory) + 1]} :
            \E legalMoves \in {legalMovesOf(game, call[1], call[2])} :
              Call(call[1], call[2], call[3], call[4], call[5], 0, legalMoves)

\* any call: every origin, every destination class, every promotion choice
Probe ==
  /\ onBook
  /\ probing(game.moveHistory)
  /\ \E fromRow \in Coord, fromCol \in Coord :
       \E legalMoves \in {legalMovesOf(game, fromRow, fromCol)} :
         \E to \in destinationsFor(legalMoves) :
           \E promotionOverride \in overridesFor(legalMoves, to[1], to[2]) :
             \E rnd \in drawsFor(legalMoves, to[1], to[2], promotionOverride) :
               Call(fromRow, fromCol, to[1], to[2], promotionOverride, rnd, legalMoves)

Next == FollowBook \/ Probe

Spec == Init /\ [][Next]_vars

\* ----------------------------------------------- the caller of the selectors

\* The selectors are asked where a followed game ends, when it is over or
\* has at most this many men left on the board.
MaxMen == 7

\* The hard search is asked for when the game is over or has at most this
\* many men left on the board.
MaxMenSearched == 4

\* getChaosMove is called at most this many times in one game
MaxChaosCalls == 16

men(g) ==
  Cardinality({sq \in (0..7) \X (0..7) : g.board[sq[1]][sq[2]] # None})

asking(g) ==
  /\ \E l \in following(g.moveHistory) : Len(g.moveHistory) = Len(Book[l])
  /\ g.gameOver \/ men(g) <= MaxMen

\* line 537 of part_002: what executeAIMove keeps in aiResult of the response
\* of getAIMove, with the difficulty asked and the promotion draw the hard
\* search made
resultOf(level, rnd, response) ==
  [difficulty |-> level, rnd |-> rnd, move |-> response.move,
   comment |-> response.comment, botWins |-> response.botWins,
   cheat |-> response.cheat]

\* one call of getAIMove on the game and the chaos state held
Ask(level, moves, draws) ==
  \E out \in {getAIMove(chaosState, game, moves, level, draws)} :
    /\ chaosState' = out.chaosState
    /\ aiResult' = resultOf(level, draws.rnd, out.response)
    /\ UNCHANGED <<game, ret, onBook>>
    /\ UNCHANGED page

\* a game is played at one difficulty; the game is followed before the
\* selector is asked
FollowGame ==
  /\ aiResult = noResult
  /\ chaosState = initialChaosState
  /\ FollowBook

\* a call of getAIMove the caller may make: the difficulty and the
\* Math.random() the call draws
ask(level, draws) == [level |-> level, draws |-> draws]

\* the easy selector is asked whatever the chaos counters are: they are
\* module state, and stay what the last chaos game left
AskEasy(moves) ==
  IF onBook /\ asking(game)
  THEN {ask("easy", [noDraws EXCEPT !.r1 = r1, !.r2 = r2]) :
          r1 \in Randoms, r2 \in Randoms}
  ELSE {}

AskHard(moves) ==
  IF /\ onBook /\ asking(game)
     /\ game.gameOver \/ men(game) <= MaxMenSearched
     /\ aiResult = noResult /\ chaosState = initialChaosState
  THEN {ask("hard", [noDraws EXCEPT !.rnd = rnd]) : rnd \in 0..3}
  ELSE {}

\* startNewGame, lines 143-144 of part_002, at difficulty 'chaos'
InitChaosMode ==
  /\ onBook /\ asking(game)
  /\ aiResult = noResult /\ chaosState = initialChaosState
  /\ \E r \in Randoms : chaosState' = initChaosMode(r)
  /\ UNCHANGED <<game, ret, onBook, aiResult>>
  /\ UNCHANGED page

\* the Math.random() a call of getChaosMove makes at lines 356 and 364 (a
\* place that is not reached draws nothing); counted is countTurn(chaosState)
drawnAt(reached) == IF reached THEN Randoms ELSE {0}

moveIsPicked(counted, moves) ==
  counted.turnCount < counted.winTurn /\ Len(moves) > 0

\* getAIMove calls getChaosMove(game): no playerMove, so lines 338 and 340
\* draw nothing
AskChaos(moves) ==
  IF /\ onBook /\ asking(game)
     /\ chaosState.winTurn > 0
     /\ chaosState.turnCount < MaxChaosCalls
  THEN LET counted == countTurn(chaosState)
           picked == moveIsPicked(counted, moves)
       IN {ask("chaos",
               [noDraws EXCEPT !.weird = d[1], !.weirdComment = d[2],
                               !.weighted = d[3], !.pick = d[4]]) :
             d \in {e \in drawnAt(picked /\ 2 * counted.rulesCorruption > 30)
                          \X drawnAt(picked /\ 2 * counted.rulesCorruption > 30)
                          \X drawnAt(picked /\ 10 * counted.rulesCorruption > 90)
                          \X drawnAt(picked) :
                     60 * e[1] < 1000 * counted.rulesCorruption \/ e[2] = 0}}
  ELSE {}

\* line 537 of part_002: getAIMove is called at the difficulty of the game
AskAI ==
  \E moves \in {getAllLegalMoves(game)} :
    \E asks \in AskEasy(moves) \cup AskHard(moves) \cup AskChaos(moves) :
      Ask(asks.level, moves, asks.draws)

NextAI == FollowGame \/ InitChaosMode \/ AskAI

SpecAI == Init /\ [][NextAI]_vars

\* ------------------------------------------------------ the page (part_002)

\* line 82
playerColor == COLOR.WHITE

\* the difficulties the visitor selects here ('hard' is left out)
Difficulties == {"easy", "chaos"}

\* the values Math.random() takes on the page, in thousandths
PageRandoms == {0, 780}

\* the games started on the page, the first by init, are at most this many
MaxGames == 2

\* a game is abandoned for a new one only while it has at most this many
\* plies
MaxPliesAbandoned == 1

\* the moves the visitor plays, one per turn and in this order, when they
\* are legal: e2-e4, d2-d4, Qd1-h5
HumanPlan ==
  << <<6, 4, 4, 4>>, <<6, 3, 4, 3>>, <<7, 3, 3, 7>> >>

\* a callback waiting to run: the rest of an async function after an await,
\* or a timer; born is the game in which its chain began and move the
\* moveRecord the function holds in a local
task(kind, born, move) == [kind |-> kind, born |-> born, move |-> move]

\* showGameOver, lines 329-343 of part_004
showGameOver(winner, reason) == [winner |-> winner, reason |-> reason]

\* startNewGame, lines 119-169, at the difficulty level; r is the
\* Math.random() of initChaosMode.  No callback is cancelled.
startNewGame(level, r) ==
  /\ game' = createGame
  /\ isAnimating' = FALSE
  /\ declared' = noBanner
  /\ chaosState' = IF level = "chaos" THEN initChaosMode(r) ELSE chaosState
  /\ gameNo' = gameNo + 1
  /\ UNCHANGED <<ret, onBook, aiResult, tasks, askedBy>>

\* the Math.random() drawn at a place that is reached
pageDrawn(reached) == IF reached THEN PageRandoms ELSE {0}

\* lines 185-187: the New Game button
NewGameClick ==
  /\ gameNo < MaxGames /\ Len(game.moveHistory) <= MaxPliesAbandoned
  /\ \E r \in pageDrawn(difficulty = "chaos") : startNewGame(difficulty, r)
  /\ UNCHANGED difficulty

\* lines 194-197: another difficulty is selected
DifficultyChange ==
  /\ gameNo < MaxGames /\ Len(game.moveHistory) <= MaxPliesAbandoned
  /\ \E level \in Difficulties \ {difficulty} :
       /\ difficulty' = level
       /\ \E r \in pageDrawn(level = "chaos") : startNewGame(level, r)

\* onCanvasClick and handleSquareClick, lines 215-223 and 274-298, on the
\* destination of a selected piece, and executeMove, lines 341-363, up to
\* its await
Click ==
  /\ ~isAnimating /\ ~game.gameOver
  /\ game.turn = playerColor
  /\ Len(game.moveHistory) \div 2 < Len(HumanPlan)
  /\ \E call \in {HumanPlan[Len(game.moveHistory) \div 2 + 1]} :
       \E legalMoves \in {getLegalMoves(game, call[1], call[2])} :
         /\ findMove(legalMoves, call[3], call[4]) # 0
         /\ ret' = makeMoveWith(game, legalMoves, call[1], call[2], call[3], call[4],
                                null, 0)
         /\ game' = ret'.game
         /\ isAnimating' = TRUE
         /\ tasks' = tasks \cup {task("executeMove", gameNo, ret'.move)}
  /\ UNCHANGED <<onBook, aiResult, chaosState, difficulty, declared, gameNo, askedBy>>

\* executeMove after its await, lines 365-412
ExecuteMoveAnimated ==
  /\ \E t \in tasks :
       /\ t.kind = "executeMove"
       /\ declared' = IF t.move.checkmate
                      THEN showGameOver(t.move.piece[1], "checkmate")
                      ELSE IF t.move.stalemate
                      THEN showGameOver("draw", "stalemate")
                      ELSE declared
       /\ tasks' = (tasks \ {t}) \cup
                     (IF /\ ~t.move.checkmate /\ ~t.move.stalemate
                         /\ ~game.gameOver /\ game.turn # playerColor
                      THEN {task("timer", t.born, noRecord)}
                      ELSE {})
  /\ isAnimating' = FALSE
  /\ UNCHANGED <<game, ret, onBook, aiResult, chaosState, difficulty, gameNo, askedBy>>

\* the timer of line 411 fires: executeAIMove, lines 527-534, up to its
\* first await
ExecuteAIMove ==
  /\ \E t \in tasks :
       /\ t.kind = "timer"
       /\ IF game.gameOver
          THEN tasks' = tasks \ {t} /\ UNCHANGED isAnimating
          ELSE /\ tasks' = (tasks \ {t}) \cup {task("thinking", t.born, noRecord)}
               /\ isAnimating' = TRUE
  /\ UNCHANGED <<game, ret, onBook, aiResult, chaosState, difficulty, declared,
                 gameNo, askedBy>>

\* the Math.random() one call of getAIMove draws on the page
pageDraws(level, cs, moves) ==
  IF level = "chaos"
  THEN LET counted == countTurn(cs)
           picked == moveIsPicked(counted, moves)
       IN {[noDraws EXCEPT !.weird = weird, !.weirdComment = weirdDraw,
                           !.weighted = weighted, !.pick = pick] :
             weird \in pageDrawn(picked /\ 2 * counted.rulesCorruption > 30),
             weirdDraw \in pageDrawn(picked /\ 2 * counted.rulesCorruption > 30),
             weighted \in pageDrawn(picked /\ 10 * counted.rulesCorruption > 90),
             pick \in pageDrawn(picked)}
  ELSE {[noDraws EXCEPT !.r1 = r1, !.r2 = r2] :
          r1 \in pageDrawn(Len(moves) > 0), r2 \in pageDrawn(Len(moves) > 0)}

\* line 572 (and lines 150 and 162 of part_001, in the search): the move a
\* selector returned, or a candidate of the search, is applied by its
\* coordinates alone; no promotionOverride is passed, so makeMove draws the
\* promotion piece (rnd)
applyCandidate(g, move, rnd) ==
  makeMove(g, move.fromRow, move.fromCol, move.toRow, move.toCol, null, rnd)

\* executeAIMove between its awaits, lines 536-585: it reads the game and the
\* difficulty the page holds now
ExecuteAIMoveThought ==
  /\ \E t \in tasks :
       /\ t.kind = "thinking"
       /\ askedBy' = t.born
       /\ \E moves \in {getAllLegalMoves(game)} :
            \E draws \in pageDraws(difficulty, chaosState, moves) :
              \E out \in {getAIMove(chaosState, game, moves, difficulty, draws)} :
                /\ chaosState' = out.chaosState
                /\ aiResult' = resultOf(difficulty, 0, out.response)
                /\ IF difficulty = "chaos" /\ out.response.botWins
                   THEN /\ declared' = showGameOver("b", "chaos")
                        /\ isAnimating' = FALSE
                        /\ tasks' = tasks \ {t}
                        /\ UNCHANGED <<game, ret>>
                   ELSE IF difficulty = "chaos" /\ out.response.cheat
                   THEN /\ declared' = showGameOver("b", "cheat")
                        /\ isAnimating' = FALSE
                        /\ tasks' = tasks \ {t}
                        /\ UNCHANGED <<game, ret>>
                   ELSE IF out.response.move = None
                   THEN /\ isAnimating' = FALSE
                        /\ tasks' = tasks \ {t}
                        /\ UNCHANGED <<game, ret, declared>>
                   ELSE \E move \in {out.response.move} :
                          \E rnd \in (IF move.promotion # null THEN 0..3 ELSE {0}) :
                            /\ ret' = applyCandidate(game, move, rnd)
                            /\ game' = ret'.game
                            /\ IF ret'.valid
                               THEN /\ tasks' = (tasks \ {t}) \cup
                                         {task("executeAIMove", t.born, ret'.move)}
                                    /\ UNCHANGED isAnimating
                               ELSE /\ tasks' = tasks \ {t}
                                    /\ isAnimating' = FALSE
                            /\ UNCHANGED declared
  /\ UNCHANGED <<onBook, difficulty, gameNo>>

\* executeAIMove after its second await, lines 587-635
ExecuteAIMoveAnimated ==
  /\ \E t \in tasks :
       /\ t.kind = "executeAIMove"
       /\ declared' = IF t.move.checkmate
                      THEN showGameOver(t.move.piece[1], "checkmate")
                      ELSE IF t.move.stalemate
                      THEN showGameOver("draw", "stalemate")
                      ELSE declared
       /\ tasks' = tasks \ {t}
  /\ isAnimating' = FALSE
  /\ UNCHANGED <<game, ret, onBook, aiResult, chaosState, difficulty, gameNo, askedBy>>

NextPage ==
  \/ NewGameClick \/ DifficultyChange \/ Click \/ ExecuteMoveAnimated
  \/ ExecuteAIMove \/ ExecuteAIMoveThought \/ ExecuteAIMoveAnimated

SpecPage == Init /\ [][NextPage]_vars

\* ------------------------------------------------------------------ claims

Range(seq) == {seq[i] : i \in 1..Len(seq)}

Last(seq) == seq[Len(seq)]

kingsOf(g, color) ==
  {sq \in (0..7) \X (0..7) : g.board[sq[1]][sq[2]] = <<color, PIECE.KING>>}

\* the colour that made the move ret reports
mover == getPieceColor(ret.move.piece)

\* the promotion arguments that matter for a move of the legal list
overridesOf(m) == IF m.promotion # null THEN PromotionChoices ELSE {null}

drawsOf(m, promotionOverride) ==
  IF m.promotion # null /\ promotionOverride = null THEN 0..3 ELSE {0}

\* a pawn's record that is a double step
isDoubleStep(rec) ==
  /\ getPieceType(rec.piece) = PIECE.PAWN
  /\ abs(rec.to[1] - rec.from[1]) = 2

\* C1: every move of getAllLegalMoves(s) is accepted by makeMove, and in the
\* state it returns the king of the colour that moved is not attacked.  Stated
\* of every move makeMove has applied, and of every legal move of every
\* position of a followed game.
C1_LegalMoveLeavesOwnKingSafe ==
  /\ ret.valid => ~isInCheck(game, mover)
  /\ onBook =>
       \A m \in Range(getAllLegalMoves(game)) :
         \A po \in overridesOf(m) :
           \A rnd \in drawsOf(m, po) :
             \A r \in {makeMove(game, m.fromRow, m.fromCol, m.toRow, m.toCol, po, rnd)} :
               r.valid /\ ~r.threw /\ ~isInCheck(r.game, game.turn)

\* C1 witness: a move was applied that answered a check
C1_Witness ==
  /\ ret.valid
  /\ Len(game.moveHistory) >= 2
  /\ game.moveHistory[Len(game.moveHistory) - 1].check
  /\ ~isInCheck(game, mover)

\* C2: every state reached by successful makeMove calls (promotion choice
\* absent or an officer) holds exactly one white king and one black king.
C2_OneKingEach ==
  /\ Cardinality(kingsOf(game, COLOR.WHITE)) = 1
  /\ Cardinality(kingsOf(game, COLOR.BLACK)) = 1

\* C2 witness: a pawn has just promoted and both kings are on the board
C2_Witness ==
  /\ ret.valid
  /\ ret.move.promotion # null
  /\ Cardinality(kingsOf(game, COLOR.WHITE)) = 1
  /\ Cardinality(kingsOf(game, COLOR.BLACK)) = 1

\* C3: makeMove with arbitrary coordinates (rows and columns outside 0..7
\* included) either applies a move of the legal list or returns valid=false
\* with the unchanged input state; it never throws.
C3_ArbitraryCoordinatesNeverThrow ==
  [][/\ ~ret'.threw
     /\ ~ret'.valid => ret'.game = game /\ game' = game
     /\ ret'.valid =>
          \E m \in Range(getAllLegalMoves(game)) :
            /\ ret'.move.from = <<m.fromRow, m.fromCol>>
            /\ ret'.move.to = <<m.toRow, m.toCol>>]_vars

\* C4: after a successful makeMove, with the turn switched to the opponent:
\* checkmate iff the opponent is in check without a legal move, stalemate iff
\* not in check without a legal move, check iff in check with a legal move; at
\* most one flag is set; checkmate ends the game for the mover, stalemate as a
\* draw, and otherwise the game is not over.
C4_FlagsMatchThePositionAfterTheMove ==
  ret.valid =>
    \A inCheck \in {isInCheck(game, game.turn)} :
      \A noMoves \in {getAllLegalMoves(game) = <<>>} :
        /\ game.turn = opponent(mover)
        /\ Last(game.moveHistory) = ret.move
        /\ ret.move.checkmate <=> (inCheck /\ noMoves)
        /\ ret.move.stalemate <=> (~inCheck /\ noMoves)
        /\ ret.move.check <=> (inCheck /\ ~noMoves)
        /\ Cardinality({f \in {"check", "checkmate", "stalemate"} : ret.move[f]}) <= 1
        /\ ret.move.checkmate =>
             /\ game.gameOver
             /\ game.winner = mover
             /\ game.gameOverReason = "checkmate"
        /\ ret.move.stalemate =>
             /\ game.gameOver
             /\ game.winner = "draw"
             /\ game.gameOverReason = "stalemate"
        /\ ~ret.move.checkmate /\ ~ret.move.stalemate =>
             /\ ~game.gameOver
             /\ game.winner = null
             /\ game.gameOverReason = null

\* C4 witness: a move that stalemated the opponent
C4_Witness ==
  /\ ret.valid
  /\ ret.move.stalemate
  /\ ~isInCheck(game, game.turn)
  /\ game.gameOver
  /\ game.winner = "draw"

\* the fool's mate: f2-f3, e7-e5, g2-g4, Qd8-h4
foolsMate == << <<6, 5, 5, 5>>, <<1, 4, 3, 4>>, <<6, 6, 4, 6>>, <<0, 3, 4, 7>> >>

RECURSIVE playAll(_, _)
\* the results of calling makeMove with each call of a list in turn, each on
\* the state the call before returned
playAll(g, calls) ==
  IF calls = <<>> THEN <<>>
  ELSE LET r == makeMove(g, Head(calls)[1], Head(calls)[2],
                         Head(calls)[3], Head(calls)[4], null, 0)
       IN <<r>> \o playAll(r.game, Tail(calls))

\* C5: from createGame() the four moves of the fool's mate are all accepted
\* and leave gameOver=true, winner=Black, reason 'checkmate' and no legal
\* move for White.
C5_FoolsMate ==
  /\ game = createGame =>
       \A rs \in {playAll(game, foolsMate)} :
         /\ \A i \in 1..4 : rs[i].valid
         /\ rs[4].game.gameOver
         /\ rs[4].game.winner = COLOR.BLACK
         /\ rs[4].game.gameOverReason = "checkmate"
         /\ rs[4].game.turn = COLOR.WHITE
         /\ getAllLegalMoves(rs[4].game) = <<>>
  /\ (/\ Len(game.moveHistory) = 4
      /\ \A i \in 1..4 :
           /\ game.moveHistory[i].from = <<foolsMate[i][1], foolsMate[i][2]>>
           /\ game.moveHistory[i].to = <<foolsMate[i][3], foolsMate[i][4]>>)
     => /\ game.gameOver
        /\ game.winner = COLOR.BLACK
        /\ game.gameOverReason = "checkmate"
        /\ getAllLegalMoves(game) = <<>>

\* C5 witness: the four moves were played and the queen's move mated
C5_Witness ==
  /\ Len(game.moveHistory) = 4
  /\ ret.valid
  /\ ret.move.from = <<0, 3>>
  /\ ret.move.to = <<4, 7>>
  /\ game.moveHistory[3].to = <<4, 6>>
  /\ ret.move.checkmate
  /\ game.winner = COLOR.BLACK

RECURSIVE sumOf(_, _)
sumOf(f, n) == IF n = 0 THEN 0 ELSE f[n] + sumOf(f, n - 1)

\* the number of move sequences of length depth from g (perft)
RECURSIVE perft(_, _)
perft(g, depth) ==
  IF depth = 0 THEN 1
  ELSE LET moves == getAllLegalMoves(g)
       IN sumOf([i \in 1..Len(moves) |->
                   perft(makeMove(g, moves[i].fromRow, moves[i].fromCol,
                                  moves[i].toRow, moves[i].toCol, null, 0).game,
                         depth - 1)],
                Len(moves))

\* C6: the initial position has exactly 20 legal moves, and 400 positions are
\* reached by every legal move followed by every legal reply.
C6_PerftOfTheInitialPosition ==
  game = createGame =>
    /\ Len(getAllLegalMoves(game)) = 20
    /\ perft(game, 1) = 20
    /\ perft(game, 2) = 400

\* C6 witness: one of the 20 first moves was played and the reply has 20 moves
C6_Witness ==
  /\ ret.valid
  /\ Len(game.moveHistory) = 1
  /\ perft(createGame, 1) = 20
  /\ Len(getAllLegalMoves(game)) = 20

\* the call that ret' reports moved a pawn diagonally onto an empty square
enPassantStep ==
  /\ ret'.valid
  /\ getPieceType(ret'.move.piece) = PIECE.PAWN
  /\ ret'.move.from[2] # ret'.move.to[2]
  /\ game.board[ret'.move.to[1]][ret'.move.to[2]] = None

\* C7: an en-passant capture removes the enemy pawn that just double-stepped
\* from the square it landed on (the capturer's destination column, the
\* capturer's origin row), puts the capturer on the empty target square,
\* empties its origin and changes no other square; the record has
\* enPassant=true and captured = the enemy pawn.
C7_EnPassantRemovesThePawnThatDoubleStepped ==
  [][enPassantStep =>
       \A from \in {ret'.move.from} : \A to \in {ret'.move.to} :
         \A enemyPawn \in {<<opponent(game.turn), PIECE.PAWN>>} :
           /\ game.moveHistory # <<>>
           /\ isDoubleStep(Last(game.moveHistory))
           /\ Last(game.moveHistory).piece = enemyPawn
           /\ Last(game.moveHistory).to = <<from[1], to[2]>>
           /\ game.board[from[1]][to[2]] = enemyPawn
           /\ game'.board = [game.board EXCEPT ![from[1]][from[2]] = None,
                                               ![to[1]][to[2]] = ret'.move.piece,
                                               ![from[1]][to[2]] = None]
           /\ ret'.move.enPassant
           /\ ret'.move.captured = enemyPawn]_vars

\* C7 witness: Black captured en passant the pawn that had landed on d4
C7_Witness ==
  /\ ret.valid
  /\ ret.move.enPassant
  /\ ret.move.piece = <<COLOR.BLACK, PIECE.PAWN>>
  /\ ret.move.from = <<4, 4>>
  /\ ret.move.to = <<5, 3>>
  /\ game.board[4][3] = None
  /\ game.board[5][3] = <<COLOR.BLACK, PIECE.PAWN>>

\* the squares of the home row a castling king stands on, crosses and reaches
kingPath(castle) == IF castle = "K" THEN {4, 5, 6} ELSE {4, 3, 2}

\* the squares of the home row between the king and the rook
betweenKingAndRook(castle) == IF castle = "K" THEN {5, 6} ELSE {1, 2, 3}

\* C8: a castling move is in getLegalMoves only when the king is on its home
\* e-square, the castling right is set, the own rook is on the home corner,
\* the squares between them are empty and none of the squares the king
\* stands on, crosses and reaches is attacked; so not when only f is attacked.
C8_CastlingOfferedOnlyWhenAllowed ==
  \A sq \in kingsOf(game, game.turn) :
    \A m \in Range(getLegalMoves(game, sq[1], sq[2])) :
      m.castle # null =>
        \A homeRow \in {IF game.turn = COLOR.WHITE THEN 7 ELSE 0} :
          /\ m.castle \in {"K", "Q"}
          /\ sq = <<homeRow, 4>>
          /\ m.toRow = homeRow
          /\ m.toCol = (IF m.castle = "K" THEN 6 ELSE 2)
          /\ IF m.castle = "K" THEN game.castling[game.turn].kingSide
                               ELSE game.castling[game.turn].queenSide
          /\ game.board[homeRow][IF m.castle = "K" THEN 7 ELSE 0]
               = <<game.turn, PIECE.ROOK>>
          /\ \A c \in betweenKingAndRook(m.castle) : game.board[homeRow][c] = None
          /\ \A c \in kingPath(m.castle) :
               ~isSquareAttacked(game, homeRow, c, opponent(game.turn))

\* C8 witness: White to move is offered both castling moves
C8_Witness ==
  /\ game.turn = COLOR.WHITE
  /\ game.board[7][4] = <<COLOR.WHITE, PIECE.KING>>
  /\ {m.castle : m \in Range(getLegalMoves(game, 7, 4))} = {null, "K", "Q"}

\* C9: a castling right that is false stays false; after a king's move both
\* rights of its colour are false; after a rook leaves its home corner, or is
\* captured on it, the right of that colour and side is false.
C9_CastlingRightsOnlyEverLost ==
  [][/\ \A color \in {COLOR.WHITE, COLOR.BLACK} :
          /\ ~game.castling[color].kingSide => ~game'.castling[color].kingSide
          /\ ~game.castling[color].queenSide => ~game'.castling[color].queenSide
     /\ ret'.valid =>
          \A color \in {game.turn} : \A enemyColor \in {opponent(game.turn)} :
            \A homeRow \in {IF color = COLOR.WHITE THEN 7 ELSE 0} :
              \A enemyHomeRow \in {IF color = COLOR.WHITE THEN 0 ELSE 7} :
                /\ getPieceType(ret'.move.piece) = PIECE.KING
                     => /\ ~game'.castling[color].kingSide
                        /\ ~game'.castling[color].queenSide
                /\ (/\ getPieceType(ret'.move.piece) = PIECE.ROOK
                    /\ ret'.move.from = <<homeRow, 7>>)
                     => ~game'.castling[color].kingSide
                /\ (/\ getPieceType(ret'.move.piece) = PIECE.ROOK
                    /\ ret'.move.from = <<homeRow, 0>>)
                     => ~game'.castling[color].queenSide
                /\ (/\ ret'.move.captured = <<enemyColor, PIECE.ROOK>>
                    /\ ret'.move.to = <<enemyHomeRow, 7>>)
                     => ~game'.castling[enemyColor].kingSide
                /\ (/\ ret'.move.captured = <<enemyColor, PIECE.ROOK>>
                    /\ ret'.move.to = <<enemyHomeRow, 0>>)
                     => ~game'.castling[enemyColor].queenSide]_vars

\* C9 witness: the rook was captured on h8 and Black's king-side right is gone
C9_Witness ==
  /\ ret.valid
  /\ ret.move.to = <<0, 7>>
  /\ ret.move.captured = <<COLOR.BLACK, PIECE.ROOK>>
  /\ ~game.castling[COLOR.BLACK].kingSide
  /\ game.castling[COLOR.BLACK].queenSide

\* C10: after a successful makeMove enPassantTarget is set iff the move was a
\* pawn's double step, and is then the square the pawn skipped; so an
\* en-passant capture is in the legal list only on the ply right after the
\* double step, onto that square.
C10_EnPassantTargetLastsOnePly ==
  /\ ret.valid =>
       /\ game.enPassantTarget # None <=> isDoubleStep(ret.move)
       /\ isDoubleStep(ret.move) =>
            game.enPassantTarget
              = <<(ret.move.from[1] + ret.move.to[1]) \div 2, ret.move.from[2]>>
  /\ \A m \in Range(getAllLegalMoves(game)) :
       m.enPassant =>
         /\ game.moveHistory # <<>>
         /\ isDoubleStep(Last(game.moveHistory))
         /\ <<m.toRow, m.toCol>>
              = <<(Last(game.moveHistory).from[1] + Last(game.moveHistory).to[1]) \div 2,
                  Last(game.moveHistory).from[2]>>

\* C10 witness: the pawns still stand side by side one move pair after the
\* double step, the target is cleared and no en-passant capture is offered
C10_Witness ==
  /\ Len(game.moveHistory) = 6
  /\ isDoubleStep(game.moveHistory[4])
  /\ game.board[3][3] = <<COLOR.BLACK, PIECE.PAWN>>
  /\ game.board[3][4] = <<COLOR.WHITE, PIECE.PAWN>>
  /\ game.turn = COLOR.WHITE
  /\ game.enPassantTarget = None
  /\ \A m \in Range(getAllLegalMoves(game)) : ~m.enPassant

\* what a caller may pass as promotionOverride: nothing, an officer, or
\* another piece letter (line 463 tests only that the value is truthy)
AnyOverride == PromotionChoices \cup {PIECE.KING, PIECE.PAWN}

officers == {PIECE.QUEEN, PIECE.ROOK, PIECE.BISHOP, PIECE.KNIGHT}

pawnsOnFarRows(g) ==
  {sq \in {0, 7} \X (0..7) : getPieceType(g.board[sq[1]][sq[2]]) = PIECE.PAWN}

\* C11: whenever makeMove moves a pawn onto its far rank, whatever
\* promotionOverride was passed, the piece left on the destination is a queen,
\* rook, bishop or knight of the mover's colour and the record's promotion
\* names it; no state has a pawn on row 0 or row 7.
C11_PromotionAlwaysLeavesAnOfficer ==
  /\ pawnsOnFarRows(game) = {}
  /\ \A m \in Range(getAllLegalMoves(game)) :
       (/\ getPieceType(game.board[m.fromRow][m.fromCol]) = PIECE.PAWN
        /\ m.toRow = (IF game.turn = COLOR.WHITE THEN 0 ELSE 7))
       => \A po \in AnyOverride :
            \A rnd \in drawsOf(m, po) :
              \A r \in {makeMove(game, m.fromRow, m.fromCol, m.toRow, m.toCol, po, rnd)} :
                /\ r.valid
                /\ getPieceColor(r.game.board[m.toRow][m.toCol]) = game.turn
                /\ getPieceType(r.game.board[m.toRow][m.toCol]) \in officers
                /\ r.move.promotion = getPieceType(r.game.board[m.toRow][m.toCol])
                /\ pawnsOnFarRows(r.game) = {}

\* what makeMove returns for the k-th legal move of g, a rejection if none
kthMove(g, k) ==
  LET moves == getAllLegalMoves(g)
  IN IF k < 1 \/ k > Len(moves) THEN rejected(g)
     ELSE makeMove(g, moves[k].fromRow, moves[k].fromCol,
                   moves[k].toRow, moves[k].toCol, null, 0)

lastMove(g) == kthMove(g, Len(getAllLegalMoves(g)))

\* C12: a successful makeMove leaves every field of its input unchanged and
\* returns a state that shares no array or object with it; a later makeMove
\* on the returned state, or another one on the same input, changes neither
\* the input nor the state returned first.
C12_MakeMoveNeverWritesToItsInput ==
  [][ret'.valid =>
       \A first \in {makeMoveOnHeap(storeGame(game), 1, ret')} :
         /\ loadGame(first.heap, 1) = game
         /\ loadGame(first.heap, first.game) = game'
         /\ cellsOf(first.heap, 1) \cap cellsOf(first.heap, first.game) = {}
         /\ \A r \in {kthMove(game', 1)} :
              \A later \in {makeMoveOnHeap(first.heap, first.game, r)} :
                /\ loadGame(later.heap, 1) = game
                /\ loadGame(later.heap, first.game) = game'
                /\ loadGame(later.heap, later.game) = r.game
         /\ \A r \in {lastMove(game)} :
              \A sibling \in {makeMoveOnHeap(first.heap, 1, r)} :
                /\ loadGame(sibling.heap, 1) = game
                /\ loadGame(sibling.heap, first.game) = game'
                /\ loadGame(sibling.heap, sibling.game) = r.game
                /\ cellsOf(sibling.heap, sibling.game)
                     \cap cellsOf(sibling.heap, first.game) = {}]_vars

\* C12 witness: a move was applied, and the state it returned has a move too
C12_Witness ==
  /\ ret.valid
  /\ Len(game.moveHistory) >= 2
  /\ kthMove(game, 1).valid
  /\ loadGame(makeMoveOnHeap(storeGame(game), 1, kthMove(game, 1)).heap, 1) = game

\* C13: getLegalMoves returns the empty list for an empty square and for a
\* piece that is not of the colour to move, returns the same list for an
\* equal state (a clone), and neither it nor getAllLegalMoves (with the
\* isInCheck and isSquareAttacked calls they make) changes the state given.
C13_MoveGenerationReadsOnly ==
  \A h0 \in {storeGame(game)} :
    /\ \A row \in 0..7, col \in 0..7 :
         /\ (\/ game.board[row][col] = None
             \/ getPieceColor(game.board[row][col]) # game.turn)
              => getLegalMoves(game, row, col) = <<>>
         /\ getPieceColor(game.board[row][col]) = game.turn
              => /\ getLegalMoves(loadGame(cloneGame(h0, 1), Len(h0) + 1), row, col)
                      = getLegalMoves(game, row, col)
                 /\ loadGame(getLegalMovesOnHeap(h0, 1, row, col), 1) = game
    /\ loadGame(getAllLegalMovesOnHeap(h0, 1, 0), 1) = game

\* C13 witness: the side to move has moves, some of Black's pieces are on the
\* board and some squares are empty
C13_Witness ==
  /\ ret.valid
  /\ game.turn = COLOR.WHITE
  /\ getAllLegalMoves(game) # <<>>
  /\ getLegalMoves(game, 0, 4) = <<>>
  /\ game.board[0][4] = <<COLOR.BLACK, PIECE.KING>>
  /\ getLegalMoves(game, 4, 0) = <<>>
  /\ game.board[4][0] = None
  /\ Len(getAllLegalMovesOnHeap(storeGame(game), 1, 0)) > Len(storeGame(game))

\* C24: a successful makeMove returns a state whose moveHistory is the
\* input's moveHistory followed by exactly one new record, the one of the move
\* just applied, so every earlier record is unchanged; a rejected makeMove
\* leaves moveHistory unchanged.
C24_MoveHistoryIsAppendOnly ==
  [][/\ ret'.valid =>
          /\ game'.moveHistory = Append(game.moveHistory, ret'.move)
          /\ ret'.move.from \in (0..7) \X (0..7)
          /\ ret'.move.piece = game.board[ret'.move.from[1]][ret'.move.from[2]]
     /\ ~ret'.valid => game'.moveHistory = game.moveHistory]_vars

\* C24 witness: four records are kept in the order of play, White's and
\* Black's in turn, and the last is the record of the move just applied
C24_Witness ==
  /\ ret.valid
  /\ Len(game.moveHistory) = 4
  /\ Last(game.moveHistory) = ret.move
  /\ \A i \in 1..4 :
       getPieceColor(game.moveHistory[i].piece)
         = (IF i % 2 = 1 THEN COLOR.WHITE ELSE COLOR.BLACK)
  /\ game.moveHistory[1].to # game.moveHistory[3].to

\* the records of Black's moves in a history
blackMoves(moveHistory) ==
  {i \in 1..Len(moveHistory) : getPieceColor(moveHistory[i].piece) = COLOR.BLACK}

\* C28: fullMoveNumber is 1 in the initial state and is one more than the
\* number of Black's moves in moveHistory in every state reached: each move of
\* Black adds one to it and no move of White changes it.
C28_FullMoveNumberCountsBlacksMoves ==
  /\ createGame.fullMoveNumber = 1
  /\ game.fullMoveNumber = 1 + Cardinality(blackMoves(game.moveHistory))

\* C28 witness: White has just made the third move of three full moves, two
\* of Black's moves are recorded and the number is 3
C28_Witness ==
  /\ ret.valid
  /\ mover = COLOR.WHITE
  /\ Len(game.moveHistory) = 5
  /\ Cardinality(blackMoves(game.moveHistory)) = 2
  /\ game.fullMoveNumber = 3

\* the piece with the other colour
recoloured(piece) ==
  IF piece = None THEN None ELSE <<opponent(piece[1]), piece[2]>>

\* the position seen from the other side: the board mirrored top to bottom
\* with every piece recoloured, and the side to move, the castling rights and
\* the en-passant target with it
mirrored(g) ==
  [g EXCEPT
     !.board = [r \in 0..7 |-> [c \in 0..7 |-> recoloured(g.board[7 - r][c])]],
     !.turn = opponent(g.turn),
     !.castling = [color \in {COLOR.WHITE, COLOR.BLACK} |->
                     g.castling[opponent(color)]],
     !.enPassantTarget = IF g.enPassantTarget = None THEN None
                         ELSE <<7 - g.enPassantTarget[1], g.enPassantTarget[2]>>]

\* C27: evaluate does not depend on the side to move (the state with only
\* turn changed has the same score), and the position mirrored top to bottom
\* with the colours swapped has exactly the negated score, whichever side is
\* to move in it.
C27_EvaluationIsFromWhitesSide ==
  /\ evaluate([game EXCEPT !.turn = opponent(game.turn)]) = evaluate(game)
  /\ evaluate(mirrored(game)) = -evaluate(game)
  /\ evaluate([mirrored(game) EXCEPT !.turn = game.turn]) = -evaluate(game)

\* C27 witness: a side is in check, so the bonus of lines 116-117 counts, the
\* men are not placed alike on the two sides and the score is not 0
C27_Witness ==
  /\ ret.valid
  /\ ret.move.check
  /\ mirrored(game).board # game.board
  /\ evaluate(game) # 0
  /\ evaluate(game) # boardScore(game, 0)

Squares == (0..7) \X (0..7)

\* the squares strictly between two squares of one row, column or diagonal
between(from, to) ==
  LET n == max(abs(to[1] - from[1]), abs(to[2] - from[2]))
  IN {<<from[1] + ((to[1] - from[1]) \div n) * i,
        from[2] + ((to[2] - from[2]) \div n) * i>> : i \in 1..(n - 1)}

\* the rules of chess: the piece on from attacks to
attacks(board, from, to) ==
  LET piece == board[from[1]][from[2]]
      type == getPieceType(piece)
      dr == to[1] - from[1]
      dc == to[2] - from[2]
      straight == (dr = 0) # (dc = 0)
      diagonal == abs(dr) = abs(dc) /\ dr # 0
      open == \A sq \in between(from, to) : board[sq[1]][sq[2]] = None
  IN CASE type = PIECE.PAWN ->
            /\ dr = (IF getPieceColor(piece) = COLOR.WHITE THEN -1 ELSE 1)
            /\ abs(dc) = 1
       [] type = PIECE.KNIGHT -> {abs(dr), abs(dc)} = {1, 2}
       [] type = PIECE.BISHOP -> diagonal /\ open
       [] type = PIECE.ROOK -> straight /\ open
       [] type = PIECE.QUEEN -> (straight \/ diagonal) /\ open
       [] type = PIECE.KING -> max(abs(dr), abs(dc)) = 1
       [] OTHER -> FALSE

\* the squares the men of a colour attack, by the rules
attackedBy(board, color) ==
  {to \in Squares :
     \E from \in Squares :
       /\ getPieceColor(board[from[1]][from[2]]) = color
       /\ attacks(board, from, to)}

\* C25: isSquareAttacked(state, sq, colour) is true iff some piece of that
\* colour attacks sq: a pawn the two squares diagonally ahead of it and never
\* the square straight ahead, a bishop, rook or queen every square of a ray up
\* to and including the first occupied one and none beyond, a knight and a
\* king their fixed offsets; isInCheck(state, c) is isSquareAttacked on c's
\* king square by the other colour.  Checked in every position of the
\* followed games.
C25_AttackedSquaresFollowTheRules ==
  onBook => \A color \in {COLOR.WHITE, COLOR.BLACK} :
    /\ \A attacked \in {attackedBy(game.board, color)} :
         \A sq \in Squares :
           isSquareAttacked(game, sq[1], sq[2], color) <=> sq \in attacked
    /\ \A from \in Squares :
         getPieceType(game.board[from[1]][from[2]]) = PIECE.PAWN
           => <<from[1] + (IF getPieceColor(game.board[from[1]][from[2]]) = COLOR.WHITE
                           THEN -1 ELSE 1), from[2]>>
                \notin getAttacksForPiece(game, from[1], from[2],
                                          game.board[from[1]][from[2]])
    /\ \A kingPos \in kingsOf(game, color) :
         isInCheck(game, color)
           <=> isSquareAttacked(game, kingPos[1], kingPos[2], opponent(color))

\* C25 witness: the side to move is in check, and a bishop, rook or queen of
\* the side that gave it attacks the first man on one of its rays, two or more
\* squares away, while no man of its colour attacks the square behind him
C25_Witness ==
  /\ onBook /\ ret.valid
  /\ isInCheck(game, game.turn)
  /\ \E from \in Squares : \E k \in 1..8 : \E i \in 2..6 :
       \A hit \in {<<from[1] + queenDirs[k][1] * i, from[2] + queenDirs[k][2] * i>>} :
         \A behind \in {<<hit[1] + queenDirs[k][1], hit[2] + queenDirs[k][2]>>} :
           /\ getPieceColor(game.board[from[1]][from[2]]) = mover
           /\ getPieceType(game.board[from[1]][from[2]])
                \in {PIECE.BISHOP, PIECE.ROOK, PIECE.QUEEN}
           /\ hit \in Squares /\ behind \in Squares
           /\ game.board[hit[1]][hit[2]] # None
           /\ hit \in getAttacksForPiece(game, from[1], from[2],
                                         game.board[from[1]][from[2]])
           /\ ~isSquareAttacked(game, behind[1], behind[2], mover)

sliders == {PIECE.BISHOP, PIECE.ROOK, PIECE.QUEEN}

\* C26: for every move getLegalMoves returns, the destination never holds a
\* man of the mover's colour, the capture flag is true iff the destination
\* holds an enemy man or the move is an en-passant capture, and a bishop, rook
\* or queen never goes beyond the first occupied square of a ray (every square
\* it passes over is empty).
C26_DestinationsAndCaptureFlags ==
  \A from \in Squares :
    \A m \in Range(getLegalMoves(game, from[1], from[2])) :
      \A target \in {game.board[m.toRow][m.toCol]} :
        /\ getPieceColor(target) # game.turn
        /\ m.capture <=> (getPieceColor(target) = opponent(game.turn) \/ m.enPassant)
        /\ getPieceType(game.board[from[1]][from[2]]) \in sliders
             => /\ attacks(game.board, from, <<m.toRow, m.toCol>>)
                /\ \A sq \in between(from, <<m.toRow, m.toCol>>) :
                     game.board[sq[1]][sq[2]] = None

\* C26 witness: the side to move may capture en passant, onto an empty square,
\* and has a bishop, rook or queen that may capture the first man of a ray
\* two or more squares away
C26_Witness ==
  /\ \E m \in Range(getAllLegalMoves(game)) :
       m.enPassant /\ m.capture /\ game.board[m.toRow][m.toCol] = None
  /\ \E m \in Range(getAllLegalMoves(game)) :
       /\ getPieceType(game.board[m.fromRow][m.fromCol]) \in sliders
       /\ m.capture
       /\ between(<<m.fromRow, m.fromCol>>, <<m.toRow, m.toCol>>) # {}

\* the other men of the same colour and kind as the man on a square, each
\* with the squares it can legally go to
twins(g, from) ==
  [sq \in {other \in Squares \ {from} :
             g.board[other[1]][other[2]] = g.board[from[1]][from[2]]} |->
     {<<m.toRow, m.toCol>> : m \in Range(getLegalMoves(g, sq[1], sq[2]))}]

\* those of them that can legally go to a square
rivals(reach, to) == {sq \in DOMAIN reach : to \in reach[sq]}

\* a square's file and rank as chess names them: files a to h from column 0,
\* ranks 1 to 8 from row 7 up to row 0
fileName(col) == <<"a", "b", "c", "d", "e", "f", "g", "h">>[col + 1]

rankName(row) == <<"1", "2", "3", "4", "5", "6", "7", "8">>[8 - row]

\* C29: for a legal move of a piece other than a pawn, the prefix
\* getDisambiguation returns is empty when no other man of the same kind and
\* colour can legally go to the destination; otherwise it is the origin file
\* if no such man stands on that file, else the origin rank if none stands on
\* that rank, else the file followed by the rank.  Checked for every such
\* move in every position of the followed games.
C29_DisambiguationPrefix ==
  onBook => \A from \in Squares :
    getPieceType(game.board[from[1]][from[2]]) \notin {null, PIECE.PAWN} =>
      \A reach \in {twins(game, from)} :
        \A m \in Range(getLegalMoves(game, from[1], from[2])) :
          \A others \in {rivals(reach, <<m.toRow, m.toCol>>)} :
            getDisambiguation(game, from[1], from[2], m.toRow, m.toCol,
                              game.board[from[1]][from[2]])
              = (IF others = {} THEN <<>>
                 ELSE IF \A sq \in others : sq[2] # from[2]
                 THEN <<fileName(from[2])>>
                 ELSE IF \A sq \in others : sq[1] # from[1]
                 THEN <<rankName(from[1])>>
                 ELSE <<fileName(from[2]), rankName(from[1])>>)

\* C29 witness: White's knights stand on d2 and d4 and both may go to f3, so
\* the prefixes are the ranks 2 and 4; the rooks need none
C29_Witness ==
  /\ onBook
  /\ game.board[6][3] = <<COLOR.WHITE, PIECE.KNIGHT>>
  /\ game.board[4][3] = <<COLOR.WHITE, PIECE.KNIGHT>>
  /\ game.turn = COLOR.WHITE
  /\ getDisambiguation(game, 6, 3, 5, 5, game.board[6][3]) = <<"2">>
  /\ getDisambiguation(game, 4, 3, 5, 5, game.board[4][3]) = <<"4">>
  /\ getDisambiguation(game, 4, 3, 2, 2, game.board[4][3]) = <<>>
  /\ getDisambiguation(game, 7, 0, 7, 1, game.board[7][0]) = <<>>

\* a state of C29's other case: the knights on d2 and g1 may both go to f3
\* and stand on different files, so the prefixes are the files d and g
C29_FileCase ==
  /\ game.board[6][3] = <<COLOR.WHITE, PIECE.KNIGHT>>
  /\ game.board[7][6] = <<COLOR.WHITE, PIECE.KNIGHT>>
  /\ game.turn = COLOR.WHITE
  /\ getDisambiguation(game, 6, 3, 5, 5, game.board[6][3]) = <<"d">>
  /\ getDisambiguation(game, 7, 6, 5, 5, game.board[7][6]) = <<"g">>

\* C31: gameOver is true iff the side to move has no legal move; and when it
\* is true makeMove rejects every call with coordinates on the board, whatever
\* the promotion asked for, returning the state as it is (so gameOver, winner
\* and gameOverReason stay).
C31_GameOverIffNoLegalMoves ==
  /\ game.gameOver <=> getAllLegalMoves(game) = <<>>
  /\ game.gameOver =>
       /\ game.winner # null /\ game.gameOverReason # null
       /\ \A from \in Squares :
            \A legalMoves \in {getLegalMoves(game, from[1], from[2])} :
              \A to \in Squares : \A po \in PromotionChoices :
                makeMoveWith(game, legalMoves, from[1], from[2], to[1], to[2], po, 0)
                  = rejected(game)
  /\ (game.gameOver /\ ret.game.gameOver /\ ~ret.valid) => ret.game = game

\* C31 witness: the game is over by checkmate and a further call was made
\* and rejected
C31_Witness ==
  /\ game.gameOver /\ game.gameOverReason = "checkmate"
  /\ ~ret.valid /\ ~ret.threw
  /\ ret.game = game

\* the colour that moves at ply i of a game
colourOfPly(i) == IF i % 2 = 1 THEN COLOR.WHITE ELSE COLOR.BLACK

\* the turn and the history of a state agree
turnFollowsHistory(g) ==
  /\ g.turn = colourOfPly(Len(g.moveHistory) + 1)
  /\ \A i \in 1..Len(g.moveHistory) :
       getPieceColor(g.moveHistory[i].piece) = colourOfPly(i)

\* C32: White is to move iff moveHistory has even length, the colours of the
\* pieces recorded in moveHistory alternate from White on, a call of makeMove
\* that is rejected leaves the turn and one that is accepted switches it.
C32_TurnAlternates ==
  [][/\ turnFollowsHistory(game) /\ turnFollowsHistory(game')
     /\ ret'.valid => game'.turn = opponent(game.turn)
     /\ ~ret'.valid => game'.turn = game.turn]_vars

\* C32 witness: Black is to move after an odd number of plies and the last
\* call was rejected
C32_Witness ==
  /\ game.turn = COLOR.BLACK
  /\ Len(game.moveHistory) % 2 = 1 /\ Len(game.moveHistory) >= 3
  /\ ~ret.valid /\ ~ret.threw

\* the home row of a colour
homeRowOf(color) == IF color = COLOR.WHITE THEN 7 ELSE 0

\* C33: whenever a castling right of a colour is set, that colour's king
\* stands on the e-square of its home row and a rook of that colour on the
\* corner of the right: the h-file for kingSide, the a-file for queenSide.
C33_CastlingRightNeedsKingAndRookAtHome ==
  \A color \in {COLOR.WHITE, COLOR.BLACK} :
    /\ game.castling[color].kingSide =>
         /\ game.board[homeRowOf(color)][4] = <<color, PIECE.KING>>
         /\ game.board[homeRowOf(color)][7] = <<color, PIECE.ROOK>>
    /\ game.castling[color].queenSide =>
         /\ game.board[homeRowOf(color)][4] = <<color, PIECE.KING>>
         /\ game.board[homeRowOf(color)][0] = <<color, PIECE.ROOK>>

\* C33 witness: a rook has just left its corner; its side has lost that
\* right and keeps the other, the king being at home
C33_Witness ==
  /\ ret.valid
  /\ getPieceType(ret.move.piece) = PIECE.ROOK
  /\ ret.move.from \in {<<homeRowOf(mover), 0>>, <<homeRowOf(mover), 7>>}
  /\ game.castling[mover].kingSide # game.castling[mover].queenSide
  /\ game.board[homeRowOf(mover)][4] = <<mover, PIECE.KING>>

\* the legal moves of a state that land on a square
landingOn(g, sq) ==
  {m \in Range(getAllLegalMoves(g)) : <<m.toRow, m.toCol>> = sq}

\* C34, as the code has it: when enPassantTarget is not null, the target
\* square is empty, lies on row 2 when White is to move and on row 5 when
\* Black is, and the square beyond it (row 3, respectively row 4, same
\* column) holds a pawn of the side that just moved; the only pawn moves that
\* land on the target are diagonal captures by the side to move, flagged
\* enPassant, and a move of another man onto the target is an ordinary move
\* that captures nothing.
C34_EnPassantTargetShape ==
  game.enPassantTarget # None =>
    \A target \in {game.enPassantTarget} :
      \A beyond \in {IF game.turn = COLOR.WHITE THEN 3 ELSE 4} :
        /\ game.board[target[1]][target[2]] = None
        /\ target[1] = (IF game.turn = COLOR.WHITE THEN 2 ELSE 5)
        /\ game.board[beyond][target[2]] = <<opponent(game.turn), PIECE.PAWN>>
        /\ \A m \in landingOn(game, target) :
             IF getPieceType(game.board[m.fromRow][m.fromCol]) = PIECE.PAWN
             THEN /\ m.fromRow = beyond /\ abs(m.fromCol - m.toCol) = 1
                  /\ game.board[m.fromRow][m.fromCol] = <<game.turn, PIECE.PAWN>>
                  /\ m.enPassant /\ m.capture
             ELSE ~m.enPassant /\ ~m.capture

\* C34 witness: a pawn of the side to move may capture en passant on the
\* target
C34_Witness ==
  /\ game.enPassantTarget # None
  /\ \E m \in landingOn(game, game.enPassantTarget) : m.enPassant

\* C34 as claimed: when enPassantTarget is not null, every move that lands
\* on the target square is a diagonal capture by a pawn of the side to move.
C34_OnlyPawnCapturesLandOnTheTarget ==
  game.enPassantTarget # None =>
    \A m \in landingOn(game, game.enPassantTarget) :
      /\ game.board[m.fromRow][m.fromCol] = <<game.turn, PIECE.PAWN>>
      /\ abs(m.fromCol - m.toCol) = 1
      /\ m.capture

\* C38: when a candidate move whose promotion field is X is applied as the
\* search and executeAIMove apply it, the position that results has the piece
\* X of the mover's colour on the destination square, so that the four
\* promotion candidates for one destination lead to four different positions.
C38_PromotionCandidateIsHonoured ==
  \A m \in Range(getAllLegalMoves(game)) :
    m.promotion # null =>
      \A rnd \in 0..3 :
        \A r \in {applyCandidate(game, m, rnd)} :
          /\ r.valid
          /\ r.game.board[m.toRow][m.toCol] = <<game.turn, m.promotion>>

\* a state where promotion candidates are on offer and, whatever piece the
\* candidate names, applying it with one draw gives one position
C38_CandidatesCollapse ==
  \E m \in Range(getAllLegalMoves(game)) :
    /\ m.promotion = PIECE.KNIGHT
    /\ applyCandidate(game, m, 0).game.board[m.toRow][m.toCol]
         = <<game.turn, PIECE.QUEEN>>
    /\ \A n \in Range(getAllLegalMoves(game)) :
         (n.fromRow = m.fromRow /\ n.fromCol = m.fromCol
          /\ n.toRow = m.toRow /\ n.toCol = m.toCol)
           => applyCandidate(game, n, 0) = applyCandidate(game, m, 0)

\* ---- the selectors (specification SpecAI)

\* C14: two calls of getHardMove on equal GameStates return the same move:
\* whatever the promotion draws of a second search of the state held are, it
\* returns the move the first one returned.
C14_HardMoveIsDeterministic ==
  aiResult.difficulty = "hard" =>
    \A rnd \in 0..3 : getHardMove(game, rnd) = aiResult.move

\* C15: at a node produced by makeMove where the side to move has no legal
\* move, minimax with depth left returns the mate score against the side to
\* move when it is in check, and 0 when it is not.
C15_NoMoveNodesScoreMateOrStalemate ==
  (ret.valid /\ Len(getAllLegalMoves(game)) = 0) =>
    \A depth \in 1..3 :
      minimax(game, depth, -Infinity, Infinity, game.turn = COLOR.WHITE, 0)
        = IF isInCheck(game, game.turn)
          THEN IF game.turn = COLOR.WHITE THEN -100000 + (5 - depth)
               ELSE 100000 - (5 - depth)
          ELSE 0

\* the positions makeMove gives for the legal moves of g
children(g, rnd) ==
  LET moves == getAllLegalMoves(g)
  IN {makeMove(g, moves[k].fromRow, moves[k].fromCol, moves[k].toRow, moves[k].toCol,
               null, rnd).game : k \in 1..Len(moves)}

greatest(S) == CHOOSE v \in S : \A w \in S : w <= v

least(S) == CHOOSE v \in S : \A w \in S : v <= w

RECURSIVE minimaxExhaustive(_, _, _, _)
\* minimax over the same evaluation with no window and no cut-off
minimaxExhaustive(g, depth, maximizing, rnd) ==
  IF depth = 0 \/ g.gameOver THEN evaluate(g)
  ELSE LET values == {minimaxExhaustive(c, depth - 1, ~maximizing, rnd) :
                        c \in children(g, rnd)}
       IN IF values = {}
          THEN IF isInCheck(g, g.turn)
               THEN IF maximizing THEN -100000 + (5 - depth) ELSE 100000 - (5 - depth)
               ELSE 0
          ELSE IF maximizing THEN greatest(values) ELSE least(values)

\* C16: with the promotion draw fixed, minimax with the window
\* (-Infinity, Infinity) returns the value of the exhaustive minimax, at every
\* depth up to 3, for the position the hard search was asked and for the
\* positions after each of its legal moves.
C16_PruningKeepsTheValue ==
  aiResult.difficulty = "hard" =>
    \A p \in {game} \cup children(game, aiResult.rnd) :
      \A depth \in 0..3 :
        minimax(p, depth, -Infinity, Infinity, p.turn = COLOR.WHITE, aiResult.rnd)
          = minimaxExhaustive(p, depth, p.turn = COLOR.WHITE, aiResult.rnd)

\* C16 witness: the hard search was asked, and in the depth-3 search of the
\* position p after one of the legal moves, the window left by p's moves
\* before the k-th cuts off the loop over the replies to the k-th
C16_Witness ==
  /\ aiResult.difficulty = "hard"
  /\ ~game.gameOver
  /\ \E p \in children(game, aiResult.rnd) :
       /\ ~p.gameOver
       /\ \E ms \in {orderMoves(getAllLegalMoves(p))} :
            \E k \in 2..Len(ms) :
              LET maximizing == p.turn = COLOR.WHITE
                  before == searchMoves(p, ms, 1, k - 1, 3, maximizing, aiResult.rnd,
                              [best |-> IF maximizing THEN -Infinity ELSE Infinity,
                               alpha |-> -Infinity, beta |-> Infinity, broke |-> FALSE])
                  q == makeMove(p, ms[k].fromRow, ms[k].fromCol, ms[k].toRow, ms[k].toCol,
                                null, aiResult.rnd).game
                  qs == orderMoves(getAllLegalMoves(q))
              IN /\ ~q.gameOver
                 /\ Len(qs) > 0
                 /\ searchMoves(q, qs, 1, Len(qs), 2, ~maximizing, aiResult.rnd,
                                [best |-> IF maximizing THEN Infinity ELSE -Infinity,
                                 alpha |-> before.alpha, beta |-> before.beta,
                                 broke |-> FALSE]).broke

\* the depth-3 minimax value of the position after each legal move of g, in
\* the order of getAllLegalMoves
rootScores(g, rnd) ==
  LET moves == getAllLegalMoves(g)
  IN [k \in 1..Len(moves) |->
        minimax(makeMove(g, moves[k].fromRow, moves[k].fromCol, moves[k].toRow,
                         moves[k].toCol, null, rnd).game,
                3, -Infinity, Infinity, g.turn # COLOR.WHITE, rnd)]

bestOf(g, scores) ==
  IF g.turn = COLOR.WHITE THEN greatest(Range(scores)) ELSE least(Range(scores))

\* C17: getHardMove returns the first move, in the order of getAllLegalMoves,
\* whose child has the greatest depth-3 minimax value when White is to move
\* and the least when Black is.
C17_HardMoveIsTheFirstBest ==
  (aiResult.difficulty = "hard" /\ Len(getAllLegalMoves(game)) > 0) =>
    \E scores \in {rootScores(game, aiResult.rnd)} :
      aiResult.move =
        getAllLegalMoves(game)[least({k \in DOMAIN scores :
                                        scores[k] = bestOf(game, scores)})]

\* C17 witness: the hard search returned the earlier of two moves that both
\* have the best value
C17_Witness ==
  /\ aiResult.difficulty = "hard"
  /\ Len(getAllLegalMoves(game)) > 0
  /\ \E scores \in {rootScores(game, aiResult.rnd)} :
       \E k1 \in DOMAIN scores, k2 \in DOMAIN scores :
         /\ k1 < k2
         /\ scores[k1] = bestOf(game, scores)
         /\ scores[k2] = bestOf(game, scores)
         /\ aiResult.move = getAllLegalMoves(game)[k1]

\* a selector was asked in this step
asked ==
  aiResult' # aiResult \/ chaosState'.turnCount # chaosState.turnCount

\* C18: when the state has no legal move, getEasyMove and getHardMove return
\* null and getChaosMove returns a response whose move is null (before the
\* win turn its comment is a chaos comment and botWins is false), and the
\* game state is what it was.
C18_NoLegalMoveGivesNoMove ==
  [][(asked /\ Len(getAllLegalMoves(game)) = 0) =>
       /\ aiResult'.move = None
       /\ (aiResult'.difficulty = "chaos"
             /\ chaosState'.turnCount < chaosState'.winTurn) =>
            (~aiResult'.botWins /\ aiResult'.comment = getComment("chaos"))
       /\ game' = game
       /\ ret' = ret]_vars

\* C18 witness: getChaosMove was asked before its win turn in a position
\* without legal moves, and answered with a chaos comment and no move
C18_Witness ==
  /\ Len(getAllLegalMoves(game)) = 0
  /\ aiResult.difficulty = "chaos"
  /\ chaosState.turnCount < chaosState.winTurn
  /\ aiResult.move = None
  /\ aiResult.comment = getComment("chaos")

C20_BotWinsOnceOnTheWinTurn ==
  aiResult.difficulty = "chaos" =>
    /\ aiResult.botWins <=> chaosState.turnCount = chaosState.winTurn
    /\ aiResult.botWins => aiResult.move = None

\* C21: getAIMove with difficulty 'easy' or 'hard' never returns botWins or
\* cheat true, returns null or a legal move of the state it was given, and
\* leaves the chaos counters (turnCount, winTurn, rulesCorruption) as they
\* were.
C21_ChaosStaysInChaosMode ==
  [][(asked /\ aiResult'.difficulty \in {"easy", "hard"}) =>
       /\ ~aiResult'.botWins
       /\ ~aiResult'.cheat
       /\ aiResult'.comment = null
       /\ aiResult'.move = None \/ aiResult'.move \in Range(getAllLegalMoves(game))
       /\ chaosState' = chaosState]_vars

\* C21 witness: the easy selector was asked in the middle of a chaos game,
\* three turns counted of 26, and returned a move
C21_Witness ==
  /\ aiResult.difficulty = "easy"
  /\ aiResult.move # None
  /\ chaosState.winTurn = 26
  /\ chaosState.turnCount = 3
  /\ chaosState.rulesCorruption = 3

\* C30: when the win turn has not been reached and White's move before the
\* call was a capture or gave check, the response of getAIMove(state, 'chaos')
\* carries a comment of the 'good' category.
C30_CaptureOrCheckIsCommentedGood ==
  (/\ aiResult.difficulty = "chaos"
   /\ chaosState.turnCount < chaosState.winTurn
   /\ game.moveHistory # <<>>
   /\ getPieceColor(Last(game.moveHistory).piece) = COLOR.WHITE
   /\ Last(game.moveHistory).captured # None \/ Last(game.moveHistory).check)
  => aiResult.comment = getComment("good")

\* ------------------------------------------- the page (specification SpecPage)

\* the banner is that of a game a visitor played to its end with no callback
\* of an earlier game taking part: every call of getAIMove so far in this
\* game came from the game's own chain
ownGame == tasks = {} /\ askedBy = gameNo

\* C22: a game played in chaos mode never ends with White declared the winner
\* by checkmate nor with a stalemate draw: the only banner shown while the
\* difficulty is 'chaos' declares the bot (Black) the winner.
C22_ChaosGameEndsWithTheBotDeclared ==
  difficulty = "chaos" => (declared = noBanner \/ declared.winner = COLOR.BLACK)

\* the visitor has mated the chaos bot on the third move, two turns counted
\* of 40, and the page declares White the winner
C22_HumanMates ==
  /\ difficulty = "chaos" /\ ownGame
  /\ chaosState.winTurn = 40 /\ chaosState.turnCount = 2
  /\ game.gameOver /\ game.winner = COLOR.WHITE
  /\ declared = showGameOver(COLOR.WHITE, "checkmate")

\* C23: a game started in chaos mode begins with turnCount 0 and a winTurn in
\* 1..50, and every execution of getChaosMove (it counts a turn) finds a
\* winTurn in 1..50 and is made by a callback of the game being played.
C23_ChaosCountersBelongToOneGame ==
  [][/\ (gameNo' # gameNo /\ difficulty' = "chaos") =>
          /\ chaosState'.turnCount = 0
          /\ chaosState'.winTurn \in 1..50
     /\ chaosState'.turnCount = chaosState.turnCount + 1 =>
          /\ chaosState.winTurn \in 1..50
          /\ askedBy' = gameNo]_vars

\* the timer of a game abandoned after its first move has fired in the chaos
\* game that followed, and getChaosMove has counted its first turn there
\* before the visitor moved
C23_StaleCallbackCounts ==
  /\ difficulty = "chaos" /\ gameNo = 2 /\ askedBy = 1
  /\ chaosState.turnCount = 1
  /\ Len(game.moveHistory) = 1
  /\ getPieceColor(game.moveHistory[1].piece) = COLOR.WHITE
  /\ aiResult.move # None

\* the executions of executeMove and executeAIMove that have begun and not yet
\* reached their last isAnimating = false (a timer that has not fired is not
\* one)
inProgress ==
  {t \in tasks : t.kind \in {"executeMove", "thinking", "executeAIMove"}}

\* executeAIMove has applied a move in this step (line 572 succeeded)
aiMoved == \E t \in tasks' \ tasks : t.kind = "executeAIMove"

\* C35: whenever executeAIMove applies a move, it is Black's turn in the game
\* the page holds and the piece moved is Black's.
C35_AIMovesBlackOnly ==
  [][aiMoved => /\ game.turn = COLOR.BLACK
                /\ getPieceColor(ret'.move.piece) = COLOR.BLACK]_vars

\* the timer of an abandoned game has fired in the game that followed and
\* the AI has made White's first move there
C35_AIMovedWhite ==
  /\ gameNo = 2 /\ askedBy = 1
  /\ Len(game.moveHistory) = 1
  /\ \E t \in tasks : t.kind = "executeAIMove" /\ t.born = 1
                       /\ getPieceColor(t.move.piece) = COLOR.WHITE

\* C36: at most one execution of executeMove or executeAIMove is in progress
\* at any time, and while one is in progress isAnimating is set.
C36_OneMoveInProgress ==
  /\ Cardinality(inProgress) <= 1
  /\ inProgress # {} => isAnimating

\* a move of the visitor is being animated while the AI of the abandoned
\* game is choosing its move
C36_HumanMovesWhileAIThinks ==
  /\ gameNo = 2
  /\ \E t \in tasks : t.kind = "executeMove" /\ t.born = 2
  /\ \E t \in tasks : t.kind = "thinking" /\ t.born = 1

\* C37: in easy mode, whenever the game is not over and it is Black's turn,
\* an AI move is pending or in progress: executeMove has still to set the
\* timer, the timer is set, or executeAIMove is running.
C37_BlackToMoveHasAnAIMoveComing ==
  (/\ difficulty = "easy"
   /\ ~game.gameOver
   /\ game.turn = COLOR.BLACK) => tasks # {}

\* the page is stuck in an easy game: Black is to move, no callback is left
\* and the visitor's clicks are ignored (line 220)
C37_Stuck ==
  /\ difficulty = "easy" /\ gameNo = 2
  /\ ~game.gameOver /\ game.turn = COLOR.BLACK
  /\ tasks = {} /\ ~isAnimating
  /\ ~ENABLED Click

====
